---- MODULE Spec2Model ----
(***************************************************************************)
(* Model of the Nexter MCP server: the block-identifier lifecycle (client  *)
(* formatter and WordPress plugin), the staged schema loader and the block *)
(* tree validator / auto-fix engine.                                       *)
(*                                                                         *)
(* Identifiers are sequences of one-character strings so that the regular  *)
(* expressions of the code are evaluated character by character.  Field    *)
(* paths are sequences of path segments; the "." the code puts between two *)
(* segments is the sequence concatenation.                                 *)
(***************************************************************************)
EXTENDS Integers, Sequences, FiniteSets, TLC

VARIABLES
    posts,        \* host: post id -> stored block tree (NoPost when absent)
    nextPostId,   \* host: id wp_insert_post assigns next
    clientTree,   \* client: the block tree in hand (to be submitted)
    lastCall,     \* the last handler that ran, with its outcome
    finId,        \* finalize study: the identifier under study
    finRec,       \* finalize study: the record id under study
    finOut,       \* finalize study: implementation -> <<once, twice>> results
    levelFiles,   \* schema loader: level -> content of that level's file
    reqLevels,    \* schema loader: the levels list of the request
    schemaOut,    \* schema loader: the schema returned by loadStagedSchema
    vTree,        \* validator: the input tree
    vSchemas,     \* validator: block name -> schema (the schemas Map)
    vPhase,       \* validator: which call ran last
    vResult,      \* validator: ValidationResult of validate(tree)
    vFix,         \* validator: result of validateAndFix(tree)
    vSchemaResult,\* validator: ValidationResult of validateBlocksWithSchemas
    hostTree,     \* tools: the post the host holds (for edit_content)
    hostStatus,   \* tools: the post_status of that post
    toolStores,   \* tools: block name -> the schema files of that type
    toolCache,    \* tools: SchemaLoader.cache (block name -> loaded schema)
    toolSent,     \* tools: the last createContent / updateContent call
    toolReply,     \* tools: what the last tool call returned
    fmtTree, \* the tree object a caller hands to the formatter
    fmtCall, \* the formatter calls made on it and what they returned
    refDefs, \* the definitions loaded from _definitions, by name
    refValue, \* the value handed to resolve$ref
    refResult, \* what resolve$ref returned for it
    brStores, \* the schema files on disk, per block type, for the browsing calls
    brIndex, \* the catalog, categories and use cases the loader holds
    brCache, \* the loader's cache of full schemas during browsing
    brReply, \* the answer to the last browsing request
    rlDisk, \* the index files on disk when reload() runs
    rlMem, \* the loader's catalog, index, categories and useCases fields
    rlCache, \* the loader's schema cache, each entry with the reload count at its read
    rlCall, \* a getSchemas call, possibly suspended at its await
    rlSeen, \* what the index getters last returned
    rlEpoch, \* how many times reload() has run
    stdioCall, \* the last tool call that came in over stdio, and its outcome
    httpCall, \* the last tools/call that came in over POST /mcp, and its outcome
    rtEnv, \* WP_API_RETRY_ATTEMPTS of the process (<<>>: not set)
    rtRetry, \* config.retry of the request (<<>>: not set)
    rtAttempts, \* how many times the request was handed to the host
    rtSeen, \* the status of each attempt's outcome (0: no response)
    rtWaits, \* the delays of the setTimeout calls, in ms
    rtState \* where the request is: inflight, waiting, resolved, rejected

vars == <<posts, nextPostId, clientTree, lastCall, finId, finRec, finOut,
          levelFiles, reqLevels, schemaOut,
          vTree, vSchemas, vPhase, vResult, vFix, vSchemaResult,
          hostTree, hostStatus, toolStores, toolCache, toolSent, toolReply,
          fmtTree, fmtCall,
          refDefs, refValue, refResult,
          brStores, brIndex, brCache, brReply,
          rlDisk, rlMem, rlCache, rlCall, rlSeen, rlEpoch,
          stdioCall, httpCall,
          rtEnv, rtRetry, rtAttempts, rtSeen, rtWaits, rtState>>

lifeVars == <<posts, nextPostId, clientTree, lastCall>>
finVars == <<finId, finRec, finOut>>
schemaVars == <<levelFiles, reqLevels, schemaOut>>
valVars == <<vTree, vSchemas, vPhase, vResult, vFix, vSchemaResult>>

toolVars == <<hostTree, hostStatus, toolStores, toolCache, toolSent, toolReply>>

fmtVars == <<fmtTree, fmtCall>>

refVars == <<refDefs, refValue, refResult>>

browseVars == <<brStores, brIndex, brCache, brReply>>

reloadVars == <<rlDisk, rlMem, rlCache, rlCall, rlSeen, rlEpoch>>

dispatchVars == <<stdioCall, httpCall>>

retryVars == <<rtEnv, rtRetry, rtAttempts, rtSeen, rtWaits, rtState>>

(***************************************************************************)
(* Bounds of the model.                                                    *)
(***************************************************************************)
MaxRecordId == 11      \* record ids 1..MaxRecordId (plus the spec's 55, 77)
FirstPostId == 9       \* id of the first post the host inserts
MaxNewPosts == 2       \* posts the host inserts in one behaviour

(***************************************************************************)
(* Characters, decimal conversion, identifier patterns.                    *)
(***************************************************************************)
HexDigit == {"0", "1", "2", "3", "4", "5", "6", "7", "8", "9",
             "a", "b", "c", "d", "e", "f"}

Digit == {"0", "1", "2", "3", "4", "5", "6", "7", "8", "9"}

DigitChar(d) == <<"0", "1", "2", "3", "4", "5", "6", "7", "8", "9">>[d + 1]

\* The decimal text of a non-negative integer (PHP's . and JS's ${} on an int).
RECURSIVE ToDec(_)
ToDec(n) ==
    IF n < 10 THEN <<DigitChar(n)>>
    ELSE Append(ToDec(n \div 10), DigitChar(n % 10))

\* /^[a-f0-9]{4}$/
IsBaseId(s) == Len(s) = 4 /\ \A i \in 1..4 : s[i] \in HexDigit

\* /^[a-f0-9]{4}_\d+$/
IsSuffixedId(s) ==
    /\ Len(s) >= 6
    /\ \A i \in 1..4 : s[i] \in HexDigit
    /\ s[5] = "_"
    /\ \A i \in 6..Len(s) : s[i] \in Digit

\* isValidBlockId
isValidBlockId(s) == IsBaseId(s) \/ IsSuffixedId(s)

\* String.prototype.includes('_')
IncludesUnderscore(s) == \E i \in 1..Len(s) : s[i] = "_"

Underscore == <<"_">>

NoId == <<>>    \* attrs.block_id absent (or the empty string): falsy / no match

(***************************************************************************)
(* Blocks.  attrs and innerBlocks carry the JavaScript kind of the value   *)
(* the agent supplied, since the validator branches on it.                 *)
(***************************************************************************)
NoProps == [n \in {} |-> [type |-> "undefined", v |-> ""]]

ObjAttrs(id, props) == [kind |-> "object", block_id |-> id, props |-> props]

ScalarAttrs(kind) == [kind |-> kind, block_id |-> NoId, props |-> NoProps]

ArrayOf(items) == [kind |-> "array", items |-> items]

NoInner == [kind |-> "undefined", items |-> <<>>]

NoContent == [kind |-> "undefined", items |-> <<>>]

NoMarkup == <<>>    \* innerHTML absent (or the empty string): falsy

Blk(name, id, inner) ==
    [blockName |-> name, attrs |-> ObjAttrs(id, NoProps),
     innerBlocks |-> inner, innerHTML |-> NoMarkup, innerContent |-> NoContent]

\* JavaScript truthiness of attrs / innerBlocks by kind.
Truthy(kind) == kind \in {"object", "array", "string", "number", "true"}

StartsWithTpgb(name) ==
    name \in {"tpgb/tp-heading", "tpgb/tp-container", "tpgb/tp-pro-paragraph",
              "tpgb/tp-button", "tpgb/tp-image", "tpgb/Bad"}

(***************************************************************************)
(* Identifier finalisation: the three implementations.                     *)
(***************************************************************************)
\* Mutant of ClientFinalizeId: appends whether or not a suffix is there.
ClientFinalizeIdStacking(id, postId) ==
    IF postId # 0 THEN id \o Underscore \o ToDec(postId) ELSE id

\* formatBlock, the branch taken when block_id is present.
ClientFinalizeId(id, postId) ==
    IF postId # 0 /\ ~IncludesUnderscore(id)
    THEN id \o Underscore \o ToDec(postId)
    ELSE id

\* append_post_id_to_blocks_array, on one block_id.
AppendFinalizeId(id, postId) ==
    IF IsBaseId(id) THEN id \o Underscore \o ToDec(postId) ELSE id

\* ensure_blocks_have_post_id, on one block_id.
EnsureFinalizeId(id, postId) ==
    IF IsBaseId(id) THEN id \o Underscore \o ToDec(postId)
    ELSE IF IsSuffixedId(id) THEN SubSeq(id, 1, 4) \o Underscore \o ToDec(postId)
    ELSE id

\* PHP: if (!isset($block['attrs'])) $block['attrs'] = [];
PhpEnsureAttrs(attrs) ==
    IF attrs.kind \in {"undefined", "null"} THEN ObjAttrs(NoId, NoProps) ELSE attrs

\* PHP: !empty($block['innerBlocks']) && is_array($block['innerBlocks'])
PhpHasInner(inner) == inner.kind = "array" /\ Len(inner.items) > 0

RECURSIVE append_post_id_to_blocks_array(_, _)
append_post_id_to_blocks_array(blocks, postId) ==
    [i \in 1..Len(blocks) |->
        LET b == blocks[i]
            a == PhpEnsureAttrs(b.attrs)
            a2 == IF a.kind = "object" /\ a.block_id # NoId
                  THEN [a EXCEPT !.block_id = AppendFinalizeId(a.block_id, postId)]
                  ELSE a
            in2 == IF PhpHasInner(b.innerBlocks)
                   THEN ArrayOf(append_post_id_to_blocks_array(b.innerBlocks.items, postId))
                   ELSE b.innerBlocks
        IN [b EXCEPT !.attrs = a2, !.innerBlocks = in2]]

RECURSIVE ensure_blocks_have_post_id(_, _)
ensure_blocks_have_post_id(blocks, postId) ==
    [i \in 1..Len(blocks) |->
        LET b == blocks[i]
            a == PhpEnsureAttrs(b.attrs)
            a2 == IF a.kind = "object" /\ a.block_id # NoId
                  THEN [a EXCEPT !.block_id = EnsureFinalizeId(a.block_id, postId)]
                  ELSE a
            in2 == IF PhpHasInner(b.innerBlocks)
                   THEN ArrayOf(ensure_blocks_have_post_id(b.innerBlocks.items, postId))
                   ELSE b.innerBlocks
        IN [b EXCEPT !.attrs = a2, !.innerBlocks = in2]]

(***************************************************************************)
(* The client formatter (block-formatter.js).                              *)
(***************************************************************************)
\* Outcomes of Math.random().toString(16).substring(2, 6): four hex characters,
\* or fewer when the fraction has a short hexadecimal expansion (0.5 -> "8").
ClientGenIds == {<<"c", "4", "d", "9">>, <<"8">>}

PropOr(attrs, name, dflt) ==
    IF attrs.kind = "object" /\ name \in DOMAIN attrs.props
       /\ attrs.props[name].type = "string" /\ attrs.props[name].v # ""
    THEN attrs.props[name].v
    ELSE dflt

generateInnerHTML(blockName, attrs) ==
    IF blockName = "tpgb/tp-heading"
    THEN LET tag == PropOr(attrs, "tTag", "h2")
             title == PropOr(attrs, "title", "")
         IN <<"<", tag, " class=wp-block-tpgb-tp-heading tp-core-heading tpgb-block-">>
            \o attrs.block_id \o <<">", title, "</", tag, ">">>
    ELSE IF StartsWithTpgb(blockName)
    THEN <<"<div class=tpgb-", blockName, " tpgb-block-">>
         \o attrs.block_id \o <<"></div>">>
    ELSE NoMarkup

\* formatBlock throws (no blockName, no attrs), or fails with a TypeError:
\* a property assignment on a primitive attrs, .map on a non-array innerBlocks.
RECURSIVE FormatThrows(_)
FormatThrows(blocks) ==
    \E i \in 1..Len(blocks) :
        LET b == blocks[i] IN
        \/ b.blockName = ""
        \/ ~Truthy(b.attrs.kind)
        \/ b.attrs.kind \in {"string", "number", "true"}
        \/ Truthy(b.innerBlocks.kind) /\ b.innerBlocks.kind # "array"
        \/ b.innerBlocks.kind = "array" /\ FormatThrows(b.innerBlocks.items)

\* Number of generateBlockId() calls formatBlock makes in a subtree.
RECURSIVE NeedIds(_)
NeedIds(blocks) ==
    IF blocks = <<>> THEN 0
    ELSE LET b == Head(blocks) IN
         (IF b.attrs.block_id = NoId THEN 1 ELSE 0)
         + (IF b.innerBlocks.kind = "array" THEN NeedIds(b.innerBlocks.items) ELSE 0)
         + NeedIds(Tail(blocks))

RECURSIVE formatBlock(_, _, _)
RECURSIVE formatBlocksForWordPress(_, _, _)

\* gens: the values the successive generateBlockId() calls return.
formatBlock(block, postId, gens) ==
    LET missing == block.attrs.block_id = NoId
        id == IF missing
              THEN (IF postId # 0 THEN gens[1] \o Underscore \o ToDec(postId)
                    ELSE gens[1])
              ELSE ClientFinalizeId(block.attrs.block_id, postId)
        attrs == [block.attrs EXCEPT !.block_id = id]
        rest == IF missing THEN Tail(gens) ELSE gens
        inner == IF block.innerBlocks.kind = "array"
                 THEN formatBlocksForWordPress(block.innerBlocks.items, postId, rest)
                 ELSE <<>>
        html == IF block.innerHTML # NoMarkup THEN block.innerHTML
                ELSE generateInnerHTML(block.blockName, attrs)
    IN [blockName |-> block.blockName,
        attrs |-> attrs,
        innerBlocks |-> ArrayOf(inner),
        innerHTML |-> html,
        innerContent |->
            IF block.innerContent.kind = "array" THEN block.innerContent
            ELSE IF Len(inner) > 0
                 THEN ArrayOf([k \in 1..Len(inner) |-> <<"null">>])
                 ELSE ArrayOf(<<html>>)]

formatBlocksForWordPress(blocks, postId, gens) ==
    IF blocks = <<>> THEN <<>>
    ELSE LET n == NeedIds(<<Head(blocks)>>) IN
         <<formatBlock(Head(blocks), postId, SubSeq(gens, 1, n))>>
         \o formatBlocksForWordPress(Tail(blocks), postId,
                                     SubSeq(gens, n + 1, Len(gens)))

\* preprocessBlocks(blocks).formatted; gens[i] is what generateBlockId()
\* returns for top-level block i (used only when that block needs one).
preprocessBlocks(blocks, gens) ==
    [i \in 1..Len(blocks) |->
        LET b == blocks[i]
            id == IF b.attrs.block_id # NoId THEN b.attrs.block_id
                  ELSE IF StartsWithTpgb(b.blockName) THEN gens[i]
                  ELSE NoId
            attrs == ObjAttrs(id, b.attrs.props)
            html == IF b.innerHTML # NoMarkup THEN b.innerHTML
                    ELSE generateInnerHTML(b.blockName, attrs)
        IN [blockName |-> b.blockName,
            attrs |-> attrs,
            innerBlocks |-> IF Truthy(b.innerBlocks.kind) THEN b.innerBlocks
                            ELSE ArrayOf(<<>>),
            innerHTML |-> html,
            innerContent |-> IF b.innerContent.kind = "array" THEN b.innerContent
                             ELSE ArrayOf(<<html>>)]]

(***************************************************************************)
(* Idle values of the state each specification leaves alone.               *)
(***************************************************************************)
NoPost == [exists |-> FALSE, blocks |-> <<>>]

Stored(blocks) == [exists |-> TRUE, blocks |-> blocks]

LifeIdle ==
    /\ posts = <<>> /\ nextPostId = 0 /\ clientTree = <<>>
    /\ lastCall = [op |-> "none", status |-> "none", post |-> 0]

FinIdle == finId = NoId /\ finRec = 0 /\ finOut = <<>>

SchemaIdle == levelFiles = <<>> /\ reqLevels = <<>> /\ schemaOut = <<>>

ValIdle ==
    /\ vTree = <<>> /\ vSchemas = <<>> /\ vPhase = "idle"
    /\ vResult = <<>> /\ vFix = <<>> /\ vSchemaResult = <<>>

ToolIdle ==
    /\ hostTree = <<>> /\ hostStatus = "" /\ toolStores = <<>> /\ toolCache = <<>>
    /\ toolSent = <<>> /\ toolReply = <<>>

FmtIdle == fmtTree = <<>> /\ fmtCall = <<>>

RefIdle == refDefs = <<>> /\ refValue = <<>> /\ refResult = <<>>

BrowseIdle == brStores = <<>> /\ brIndex = <<>> /\ brCache = <<>> /\ brReply = <<>>

ReloadIdle ==
    /\ rlDisk = <<>> /\ rlMem = <<>> /\ rlCache = <<>>
    /\ rlCall = <<>> /\ rlSeen = <<>> /\ rlEpoch = 0

DispatchIdle == stdioCall = <<>> /\ httpCall = <<>>

RetryIdle ==
    /\ rtEnv = <<>> /\ rtRetry = <<>> /\ rtAttempts = 0
    /\ rtSeen = <<>> /\ rtWaits = <<>> /\ rtState = ""

(***************************************************************************)
(* Identifier lifecycle: the client holds a tree, formats it, and the host *)
(* binds it to a post on create and on every update.                       *)
(***************************************************************************)
PostIds == FirstPostId..(FirstPostId + MaxNewPosts - 1)

Base1 == <<"a", "b", "1", "2">>

Base2 == <<"0", "f", "9", "c">>

\* Identifiers an agent writes: none, base form, suffixed with a record id
\* that is not the post it will be stored in.
AgentIds == {NoId, Base1, Base1 \o Underscore \o ToDec(55)}

\* A block whose markup the agent supplied (the formatter keeps it).
MarkedBlk(name, id, inner) ==
    [blockName |-> name, attrs |-> ObjAttrs(id, NoProps),
     innerBlocks |-> inner, innerHTML |-> <<"<p>x</p>">>,
     innerContent |-> ArrayOf(<<<<"<p>x</p>">>>>)]

AgentTrees ==
    {<<MarkedBlk("tpgb/tp-heading", a, ArrayOf(<<>>))>> : a \in AgentIds}
    \cup {<<MarkedBlk("tpgb/tp-container", Base2,
                      ArrayOf(<<MarkedBlk("tpgb/tp-heading", b, ArrayOf(<<>>))>>))>> :
            b \in AgentIds}

LifeInit ==
    /\ posts = [p \in PostIds |-> NoPost]
    /\ nextPostId = FirstPostId
    /\ clientTree \in AgentTrees
    /\ lastCall = [op |-> "none", status |-> "none", post |-> 0]
    /\ FinIdle /\ SchemaIdle /\ ValIdle /\ ToolIdle /\ FmtIdle /\ RefIdle /\ BrowseIdle /\ ReloadIdle /\ DispatchIdle /\ RetryIdle

Called(op, status, post) == [op |-> op, status |-> status, post |-> post]

\* get_content: the client reads the stored tree of a post.
ClientGet(p) ==
    /\ posts[p].exists
    /\ clientTree' = posts[p].blocks
    /\ lastCall' = Called("get", "ok", p)
    /\ UNCHANGED <<posts, nextPostId, finVars, schemaVars, valVars, toolVars, fmtVars, refVars, browseVars, reloadVars, dispatchVars, retryVars>>

\* preprocessBlocks, the formatting step of create_content and edit_content.
ClientPreprocess ==
    /\ \E gens \in [1..Len(clientTree) -> ClientGenIds] :
          clientTree' = preprocessBlocks(clientTree, gens)
    /\ lastCall' = Called("preprocess", "ok", 0)
    /\ UNCHANGED <<posts, nextPostId, finVars, schemaVars, valVars, toolVars, fmtVars, refVars, browseVars, reloadVars, dispatchVars, retryVars>>

\* formatBlocksForWordPress(blocks, postId): pre-submission formatting with the
\* post id the client knows (0: none given).
ClientFormat(postId) ==
    /\ ~FormatThrows(clientTree)
    /\ \E gens \in [1..NeedIds(clientTree) -> ClientGenIds] :
          clientTree' = formatBlocksForWordPress(clientTree, postId, gens)
    /\ lastCall' = Called("format", "ok", postId)
    /\ UNCHANGED <<posts, nextPostId, finVars, schemaVars, valVars, toolVars, fmtVars, refVars, browseVars, reloadVars, dispatchVars, retryVars>>

\* validate_blocks_array: every top-level block has blockName and attrs set.
validate_blocks_array(blocks) ==
    /\ Len(blocks) > 0
    /\ \A i \in 1..Len(blocks) :
          blocks[i].blockName # "" /\ blocks[i].attrs.kind \notin {"undefined", "null"}

\* create_content: wp_insert_post stores the tree as sent, then the tree with
\* the post id appended is written by wp_update_post, whose result is not
\* looked at.  insertOk / updateOk: whether the two writes succeed.
create_content(insertOk, updateOk) ==
    /\ nextPostId \in PostIds
    /\ IF ~validate_blocks_array(clientTree)
       THEN /\ lastCall' = Called("create", "rejected", 0)
            /\ UNCHANGED <<posts, nextPostId>>
       ELSE IF ~insertOk
       THEN /\ lastCall' = Called("create", "creation_failed", 0)
            /\ UNCHANGED <<posts, nextPostId>>
       ELSE /\ posts' = [posts EXCEPT ![nextPostId] =
                          IF updateOk
                          THEN Stored(append_post_id_to_blocks_array(clientTree,
                                                                     nextPostId))
                          ELSE Stored(clientTree)]
            /\ nextPostId' = nextPostId + 1
            /\ lastCall' = Called("create", "success", nextPostId)
    /\ UNCHANGED <<clientTree, finVars, schemaVars, valVars, toolVars, fmtVars, refVars, browseVars, reloadVars, dispatchVars, retryVars>>

\* update_content on post p.
update_content(p, updateOk) ==
    /\ IF ~posts[p].exists
       THEN /\ lastCall' = Called("update", "not_found", p)
            /\ UNCHANGED posts
       ELSE IF ~updateOk
       THEN /\ lastCall' = Called("update", "update_failed", p)
            /\ UNCHANGED posts
       ELSE /\ posts' = [posts EXCEPT ![p] =
                          Stored(ensure_blocks_have_post_id(clientTree, p))]
            /\ lastCall' = Called("update", "success", p)
    /\ UNCHANGED <<clientTree, nextPostId, finVars, schemaVars, valVars, toolVars, fmtVars, refVars, browseVars, reloadVars, dispatchVars, retryVars>>

LifeNext ==
    \/ \E p \in PostIds : ClientGet(p)
    \/ ClientPreprocess
    \/ \E p \in {0} \cup PostIds : ClientFormat(p)
    \/ create_content(TRUE, TRUE)
    \/ \E p \in PostIds : update_content(p, TRUE)

Spec == LifeInit /\ [][LifeNext]_vars

\* Every block_id of a tree, at every nesting depth.
RECURSIVE TreeIds(_)
TreeIds(blocks) ==
    UNION {{blocks[i].attrs.block_id} \cup
           (IF blocks[i].innerBlocks.kind = "array"
            THEN TreeIds(blocks[i].innerBlocks.items) ELSE {}) :
           i \in 1..Len(blocks)} \ {NoId}

SuffixOf(id) == SubSeq(id, 6, Len(id))

\* C1: in every stored tree, every well-formed identifier at every depth has
\* exactly one "_<n>" suffix and that suffix is the id of the post holding it.
C1_StoredSuffixIsRecord ==
    \A p \in PostIds :
        posts[p].exists =>
            \A id \in TreeIds(posts[p].blocks) :
                isValidBlockId(id) => IsSuffixedId(id) /\ SuffixOf(id) = ToDec(p)

(***************************************************************************)
(* finalize(id, recordId) as a function: each implementation is applied to *)
(* a one-block tree carrying the identifier, and again to its own result.  *)
(***************************************************************************)
RecordIds == (1..MaxRecordId) \cup {55, 77}

FinBases == {Base1, Base2}

\* Valid identifiers: base form, or base form + "_" + a positive integer.
FinIds == FinBases \cup {b \o Underscore \o ToDec(n) : b \in FinBases, n \in RecordIds}

NotRun == [done |-> FALSE, once |-> NoId, twice |-> NoId]

Ran(once, twice) == [done |-> TRUE, once |-> once, twice |-> twice]

OneBlock(id) == <<MarkedBlk("tpgb/tp-heading", id, ArrayOf(<<>>))>>

IdOf(blocks) == blocks[1].attrs.block_id

ClientFinalize(id, r) == IdOf(formatBlocksForWordPress(OneBlock(id), r, <<>>))

AppendFinalize(id, r) == IdOf(append_post_id_to_blocks_array(OneBlock(id), r))

EnsureFinalize(id, r) == IdOf(ensure_blocks_have_post_id(OneBlock(id), r))

FinInit ==
    /\ finId \in FinIds
    /\ finRec \in RecordIds
    /\ finOut = [client |-> NotRun, append |-> NotRun, ensure |-> NotRun]
    /\ LifeIdle /\ SchemaIdle /\ ValIdle /\ ToolIdle /\ FmtIdle /\ RefIdle /\ BrowseIdle /\ ReloadIdle /\ DispatchIdle /\ RetryIdle

FinalizeClient ==
    /\ ~finOut.client.done
    /\ finOut' = [finOut EXCEPT !.client =
                    Ran(ClientFinalize(finId, finRec),
                        ClientFinalize(ClientFinalize(finId, finRec), finRec))]
    /\ UNCHANGED <<finId, finRec, lifeVars, schemaVars, valVars, toolVars, fmtVars, refVars, browseVars, reloadVars, dispatchVars, retryVars>>

FinalizeAppend ==
    /\ ~finOut.append.done
    /\ finOut' = [finOut EXCEPT !.append =
                    Ran(AppendFinalize(finId, finRec),
                        AppendFinalize(AppendFinalize(finId, finRec), finRec))]
    /\ UNCHANGED <<finId, finRec, lifeVars, schemaVars, valVars, toolVars, fmtVars, refVars, browseVars, reloadVars, dispatchVars, retryVars>>

FinalizeEnsure ==
    /\ ~finOut.ensure.done
    /\ finOut' = [finOut EXCEPT !.ensure =
                    Ran(EnsureFinalize(finId, finRec),
                        EnsureFinalize(EnsureFinalize(finId, finRec), finRec))]
    /\ UNCHANGED <<finId, finRec, lifeVars, schemaVars, valVars, toolVars, fmtVars, refVars, browseVars, reloadVars, dispatchVars, retryVars>>

FinNext == FinalizeClient \/ FinalizeAppend \/ FinalizeEnsure

SpecFinalize == FinInit /\ [][FinNext]_vars

FinImpls == {"client", "append", "ensure"}

\* C2: finalize is idempotent in each implementation:
\* finalize(finalize(id, r), r) = finalize(id, r).
C2_FinalizeIdempotent ==
    \A impl \in FinImpls :
        finOut[impl].done => finOut[impl].twice = finOut[impl].once

\* C2 witness: all three implementations ran on an identifier they changed.
C2_Witness ==
    /\ \A impl \in FinImpls : finOut[impl].done
    /\ IsBaseId(finId)
    /\ \A impl \in FinImpls : finOut[impl].once # finId

FinExpected(id, r) == SubSeq(id, 1, 4) \o Underscore \o ToDec(r)

\* C3: finalize appends "_<recordId>" to a base-form id and replaces only the
\* suffix of a suffixed id, keeping the 4-hex base (client and host alike).
C3_FinalizeAppendsOrReplaces ==
    \A impl \in {"client", "ensure"} :
        finOut[impl].done => finOut[impl].once = FinExpected(finId, finRec)

\* C4: the client-side and the two host-side finalize implementations give
\* the same output on every valid (id, recordId).
C4_FinalizeImplementationsAgree ==
    (\A impl \in FinImpls : finOut[impl].done) =>
        /\ finOut.client.once = finOut.append.once
        /\ finOut.append.once = finOut.ensure.once

(***************************************************************************)
(* The staged schema loader (schema-loader.ts): getBlockSchema for one     *)
(* block type whose files are chosen in the initial state.                 *)
(***************************************************************************)
Levels == {"meta", "core", "styling", "examples", "full"}

NoKeys == [k \in {} |-> ""]

NoAttributes == [a \in {} |-> [type |-> "", ref |-> ""]]

\* The parsed content of a schema file: its top-level keys other than
\* "attributes", and its "attributes" map when it has one.
SchemaData(top, hasAttributes, attributes) ==
    [top |-> top, hasAttributes |-> hasAttributes, attributes |-> attributes]

EmptySchema == SchemaData(NoKeys, FALSE, NoAttributes)

MissingFile == [exists |-> FALSE, parses |-> FALSE, data |-> EmptySchema]

MalformedFile == [exists |-> TRUE, parses |-> FALSE, data |-> EmptySchema]

File(data) == [exists |-> TRUE, parses |-> TRUE, data |-> data]

\* The definitions loaded from _definitions ($id -> structure).
definitionsCache ==
    [r \in {"definitions://typography"} |-> [type |-> "object", ref |-> ""]]

\* resolve$ref on one attribute definition: a definitions:// pointer is
\* replaced by the definition's structure, an unknown one is kept.
ResolveAttrDef(def) ==
    IF def.ref # "" /\ def.ref \in DOMAIN definitionsCache
    THEN definitionsCache[def.ref]
    ELSE def

\* resolve$ref on a schema: every key is kept and its value resolved.
ResolveSchema(schema) ==
    [schema EXCEPT !.attributes =
        [a \in DOMAIN schema.attributes |-> ResolveAttrDef(schema.attributes[a])]]

\* One pass of the loop of loadStagedSchema for a file that parsed:
\*   if (levelData.attributes) merged.attributes = {...merged.attributes, ...levelData.attributes}
\*   merged = {...merged, ...levelData}
\* The second statement copies every key of levelData, "attributes" included.
MergeLevel(merged, levelData) ==
    LET m1 == IF levelData.hasAttributes
              THEN [merged EXCEPT !.hasAttributes = TRUE,
                                  !.attributes = levelData.attributes @@ merged.attributes]
              ELSE merged
    IN [top |-> levelData.top @@ m1.top,
        hasAttributes |-> m1.hasAttributes,
        attributes |-> IF levelData.hasAttributes THEN levelData.attributes
                       ELSE m1.attributes]

RECURSIVE MergeLevels(_, _, _)
MergeLevels(files, levels, merged) ==
    IF levels = <<>> THEN merged
    ELSE LET f == files[Head(levels)] IN
         MergeLevels(files, Tail(levels),
                     IF f.exists /\ f.parses THEN MergeLevel(merged, f.data)
                     ELSE merged)

SeqHas(seq, x) == \E i \in 1..Len(seq) : seq[i] = x

Returned(schema) == [done |-> TRUE, kind |-> "schema", schema |-> schema]

ReturnedNull == [done |-> TRUE, kind |-> "null", schema |-> EmptySchema]

Rejected == [done |-> TRUE, kind |-> "throws", schema |-> EmptySchema]

NotAsked == [done |-> FALSE, kind |-> "none", schema |-> EmptySchema]

loadStagedSchema(files, levels, resolveRefs) ==
    IF SeqHas(levels, "full") /\ files["full"].exists
    THEN IF ~files["full"].parses THEN Rejected
         ELSE Returned(IF resolveRefs THEN ResolveSchema(files["full"].data)
                       ELSE files["full"].data)
    ELSE LET merged == MergeLevels(files, levels, EmptySchema) IN
         Returned(IF resolveRefs THEN ResolveSchema(merged) ELSE merged)

\* A loader that raises for a type with no schema file.
getBlockSchemaUnknownThrows(store, levels, resolveRefs) ==
    IF store.dir THEN loadStagedSchema(store.files, levels, resolveRefs)
    ELSE IF store.legacy.exists
    THEN IF ~store.legacy.parses THEN ReturnedNull
         ELSE Returned(IF resolveRefs THEN ResolveSchema(store.legacy.data)
                       ELSE store.legacy.data)
    ELSE Rejected

\* getBlockSchema: staged directory first, then the legacy flat file.
getBlockSchema(store, levels, resolveRefs) ==
    IF store.dir THEN loadStagedSchema(store.files, levels, resolveRefs)
    ELSE IF store.legacy.exists
    THEN IF ~store.legacy.parses THEN ReturnedNull
         ELSE Returned(IF resolveRefs THEN ResolveSchema(store.legacy.data)
                       ELSE store.legacy.data)
    ELSE ReturnedNull

StringDef == [type |-> "string", ref |-> ""]

NumberDef == [type |-> "number", ref |-> ""]

TypographyRef == [type |-> "", ref |-> "definitions://typography"]

Attrs1(a, d) == [n \in {a} |-> d]

CoreFiles ==
    {MissingFile, MalformedFile,
     File(SchemaData([k \in {"title"} |-> "Heading"], TRUE, Attrs1("title", StringDef))),
     File(SchemaData(NoKeys, TRUE,
                     Attrs1("title", StringDef) @@ Attrs1("color", StringDef)))}

StylingFiles ==
    {MissingFile,
     File(SchemaData(NoKeys, TRUE, Attrs1("color", NumberDef))),
     File(SchemaData(NoKeys, TRUE,
                     Attrs1("title", StringDef) @@ Attrs1("typo", TypographyRef))),
     File(SchemaData(NoKeys, TRUE, NoAttributes)),
     File(SchemaData([k \in {"styleNote"} |-> "x"], FALSE, NoAttributes))}

MetaFiles ==
    {MissingFile, File(SchemaData([k \in {"title"} |-> "Meta"], FALSE, NoAttributes))}

FullFiles ==
    {MissingFile, MalformedFile,
     File(SchemaData(NoKeys, TRUE,
                     Attrs1("title", StringDef) @@ Attrs1("color", StringDef)))}

Stores ==
    {[dir |-> TRUE, legacy |-> MissingFile,
      files |-> [l \in Levels |->
                   CASE l = "meta" -> m [] l = "core" -> c [] l = "styling" -> st
                     [] l = "full" -> fu [] OTHER -> MissingFile]] :
        m \in MetaFiles, c \in CoreFiles, st \in StylingFiles, fu \in FullFiles}
    \cup {[dir |-> FALSE, legacy |-> lg, files |-> [l \in Levels |-> MissingFile]] :
            lg \in {MissingFile, MalformedFile,
                    File(SchemaData(NoKeys, TRUE, Attrs1("title", StringDef)))}}

ReqLists ==
    {<<"core">>, <<"core", "styling">>, <<"full">>, <<"meta", "core", "styling">>}

SchemaInit ==
    /\ levelFiles \in Stores
    /\ reqLevels = <<>>
    /\ schemaOut = [r \in ReqLists |-> NotAsked]
    /\ LifeIdle /\ FinIdle /\ ValIdle /\ ToolIdle /\ FmtIdle /\ RefIdle /\ BrowseIdle /\ ReloadIdle /\ DispatchIdle /\ RetryIdle

\* handleGetBlockSchemas for one block name: getBlockSchema(name, levels, true).
GetBlockSchema(levels) ==
    /\ ~schemaOut[levels].done
    /\ reqLevels' = levels
    /\ schemaOut' = [schemaOut EXCEPT ![levels] = getBlockSchema(levelFiles, levels, TRUE)]
    /\ UNCHANGED <<levelFiles, lifeVars, finVars, valVars, toolVars, fmtVars, refVars, browseVars, reloadVars, dispatchVars, retryVars>>

SchemaNext == \E levels \in ReqLists : GetBlockSchema(levels)

SpecSchema == SchemaInit /\ [][SchemaNext]_vars

\* C5: the attributes returned for ["core","styling"] include every attribute
\* returned for ["core"] for the same type (levels are merged, never replaced).
C5_StagedAttributesSuperset ==
    LET one == schemaOut[<<"core">>]
        two == schemaOut[<<"core", "styling">>]
    IN (one.kind = "schema" /\ two.kind = "schema") =>
           DOMAIN one.schema.attributes \subseteq DOMAIN two.schema.attributes

(***************************************************************************)
(* The block tree validator (input-validator.ts) and its error helpers.    *)
(* A field path "blocks[1].innerBlocks[0].attrs.foo" is the sequence of    *)
(* its dot-separated segments; NoField is an absent details.field.         *)
(***************************************************************************)
NoField == <<>>

Seg(name, index) == name \o "[" \o ToString(index) \o "]"

\* createError(code, message, details): the details the helpers set.
StructuredError(code, field, attribute, blockName) ==
    [code |-> code, field |-> field, attribute |-> attribute, block_name |-> blockName]

missingFieldError(field) == StructuredError("MISSING_REQUIRED_ATTR", <<field>>, "", "")

validationError(field, blockName) ==
    StructuredError("TYPE_MISMATCH", <<field>>, field, blockName)

invalidBlockNameError == StructuredError("INVALID_BLOCK_NAME", NoField, "", "")

missingBlockIdError(blockName) ==
    StructuredError("MISSING_BLOCK_ID", <<"attrs", "block_id">>, "", blockName)

invalidBlockIdError(blockName) ==
    StructuredError("INVALID_BLOCK_ID_FORMAT", <<"attrs", "block_id">>, "", blockName)

\* Block names of the model, with what the regular expressions of
\* isValidBlockName give on each:
\*   tpgb/...  : /^tpgb\/[a-z0-9-]+$/      core/... : accepted
\*   otherwise : /^[a-z0-9-]+\/[a-z0-9-]+$/
isValidBlockName(name) ==
    name \in {"tpgb/tp-heading", "tpgb/tp-container", "tpgb/tp-pro-paragraph",
              "tpgb/tp-button", "tpgb/tp-image", "core/paragraph"}

\* blockName.includes('/')
IncludesSlash(name) ==
    name \in {"tpgb/tp-heading", "tpgb/tp-container", "tpgb/tp-pro-paragraph",
              "tpgb/tp-button", "tpgb/tp-image", "tpgb/Bad", "core/paragraph"}

\* getSuggestedBlockNames: the alias table, the tp- / tpgb- rewrite, and the
\* generic suggestions when neither applies.
getSuggestedBlockNames(input) ==
    CASE input \in {"heading", "Heading"} -> <<"tpgb/tp-heading">>
      [] input = "paragraph" -> <<"tpgb/tp-pro-paragraph">>
      [] input = "tp-image" -> <<"tpgb/tp-image">>
      [] OTHER -> <<"tpgb/tp-heading", "tpgb/tp-pro-paragraph", "tpgb/tp-button">>

Warning(kind, path, ids, text) ==
    [kind |-> kind, path |-> path, ids |-> ids, text |-> text]

\* `Block ${block.attrs?.block_id || 'unknown'} missing innerHTML - will be auto-generated`
InnerHtmlWarning(id) ==
    Warning("missing innerHTML", NoField, IF id = NoId THEN <<>> ELSE <<id>>, "")

ValidationResult(errors, warnings) ==
    [valid |-> errors = <<>>, errors |-> errors, warnings |-> warnings]

\* Concatenation of a sequence of sequences.
RECURSIVE Flatten(_)
Flatten(seqs) == IF seqs = <<>> THEN <<>> ELSE Head(seqs) \o Flatten(Tail(seqs))

\* error.details.field = `${prefix}.${error.details.field}` when it has a field.
PrefixIfField(prefix, error) ==
    IF error.field # NoField
    THEN [error EXCEPT !.field = <<prefix>> \o error.field]
    ELSE error

RECURSIVE validateBlock(_)
validateBlock(block) ==
    LET nameErrors ==
            IF block.blockName = "" THEN <<missingFieldError("blockName")>>
            ELSE IF ~isValidBlockName(block.blockName) THEN <<invalidBlockNameError>>
            ELSE <<>>
        attrsErrors ==
            IF ~Truthy(block.attrs.kind) THEN <<missingFieldError("attrs")>>
            ELSE IF block.attrs.kind \notin {"object", "array"}
            THEN <<validationError("attrs", block.blockName)>>
            ELSE <<>>
        idErrors ==
            IF ~StartsWithTpgb(block.blockName) THEN <<>>
            ELSE IF block.attrs.block_id = NoId
            THEN <<missingBlockIdError(block.blockName)>>
            ELSE IF ~isValidBlockId(block.attrs.block_id)
            THEN <<invalidBlockIdError(block.blockName)>>
            ELSE <<>>
        items == block.innerBlocks.items
        inner == [i \in 1..Len(items) |-> validateBlock(items[i])]
        innerErrors ==
            IF ~Truthy(block.innerBlocks.kind) THEN <<>>
            ELSE IF block.innerBlocks.kind # "array"
            THEN <<validationError("innerBlocks", block.blockName)>>
            ELSE Flatten([i \in 1..Len(items) |->
                    [k \in 1..Len(inner[i].errors) |->
                        PrefixIfField(Seg("innerBlocks", i - 1), inner[i].errors[k])]])
        innerWarnings ==
            IF block.innerBlocks.kind = "array"
            THEN Flatten([i \in 1..Len(items) |-> inner[i].warnings])
            ELSE <<>>
        ownWarnings ==
            IF StartsWithTpgb(block.blockName) /\ block.innerHTML = NoMarkup
            THEN <<InnerHtmlWarning(block.attrs.block_id)>>
            ELSE <<>>
    IN ValidationResult(nameErrors \o attrsErrors \o idErrors \o innerErrors,
                        innerWarnings \o ownWarnings)

\* blocks.filter(b => b.attrs?.block_id).map(b => b.attrs.block_id)
TopLevelIds(blocks) ==
    LET keep == {i \in 1..Len(blocks) : blocks[i].attrs.block_id # NoId}
        F[i \in 0..Len(blocks)] ==
            IF i = 0 THEN <<>>
            ELSE IF i \in keep THEN Append(F[i - 1], blocks[i].attrs.block_id)
            ELSE F[i - 1]
    IN F[Len(blocks)]

\* [...new Set(blockIds.filter((id, index) => blockIds.indexOf(id) !== index))]
DuplicatesOf(ids) ==
    LET F[i \in 0..Len(ids)] ==
            IF i = 0 THEN <<>>
            ELSE IF (\E j \in 1..(i - 1) : ids[j] = ids[i])
                    /\ ~SeqHas(F[i - 1], ids[i])
            THEN Append(F[i - 1], ids[i])
            ELSE F[i - 1]
    IN F[Len(ids)]

\* The error of top-level block `index`: its field prefixed, or, when it has
\* none, its details replaced by { field: `blocks[${index}]` }.
RootError(index, error) ==
    IF error.field # NoField
    THEN [error EXCEPT !.field = <<Seg("blocks", index)>> \o error.field]
    ELSE StructuredError(error.code, <<Seg("blocks", index)>>, "", "")

validateBlocks(blocks) ==
    LET each == [i \in 1..Len(blocks) |-> validateBlock(blocks[i])]
        allErrors ==
            Flatten([i \in 1..Len(blocks) |->
                [k \in 1..Len(each[i].errors) |-> RootError(i - 1, each[i].errors[k])]])
        blockWarnings == Flatten([i \in 1..Len(blocks) |-> each[i].warnings])
        duplicates == DuplicatesOf(TopLevelIds(blocks))
        duplicateWarnings ==
            IF Len(duplicates) > 0
            THEN <<Warning("duplicate block_ids", NoField, duplicates, "")>>
            ELSE <<>>
    IN ValidationResult(allErrors, blockWarnings \o duplicateWarnings)

(***************************************************************************)
(* Auto-fix (autoFixBlock, validateAndFix).                                *)
(***************************************************************************)
\* randomBytes(2).toString('hex'): always four hex characters.
FixGenIds == {<<"3", "e", "7", "a">>, <<"a", "b", "1", "2">>}

\* The module is strict-mode code: fixed.attrs.block_id = ... on a truthy
\* primitive attrs raises a TypeError.
autoFixThrows(block) ==
    /\ StartsWithTpgb(block.blockName)
    /\ block.attrs.block_id = NoId
    /\ Truthy(block.attrs.kind)
    /\ block.attrs.kind \notin {"object", "array"}

\* Mutant of autoFixBlock's first step: no identifier is generated.
GenerateIdNever(block, gen) == block.attrs

\* Step 1 of autoFixBlock: fixed.attrs after the block_id generation.
GenerateId(block, gen) ==
    IF StartsWithTpgb(block.blockName) /\ block.attrs.block_id = NoId
    THEN IF Truthy(block.attrs.kind)
         THEN [block.attrs EXCEPT !.block_id = gen]
         ELSE ObjAttrs(gen, NoProps)
    ELSE block.attrs

\* autoFixBlock(block): fixed and changes; gen is what randomBytes returns.
autoFixBlock(block, gen) ==
    LET needId == StartsWithTpgb(block.blockName) /\ block.attrs.block_id = NoId
        attrs1 == GenerateId(block, gen)
        rename == block.blockName # "" /\ ~StartsWithTpgb(block.blockName)
                  /\ ~IncludesSlash(block.blockName)
        name2 == IF rename THEN getSuggestedBlockNames(block.blockName)[1]
                 ELSE block.blockName
        resetAttrs == ~Truthy(attrs1.kind) \/ attrs1.kind \notin {"object", "array"}
        attrs3 == IF resetAttrs THEN ObjAttrs(NoId, NoProps) ELSE attrs1
        resetInner == Truthy(block.innerBlocks.kind) /\ block.innerBlocks.kind # "array"
        inner4 == IF resetInner THEN ArrayOf(<<>>) ELSE block.innerBlocks
    IN [fixed |-> [block EXCEPT !.blockName = name2, !.attrs = attrs3,
                                !.innerBlocks = inner4],
        changes |-> (IF needId THEN <<"Generated block_id">> ELSE <<>>)
                    \o (IF rename THEN <<"Changed blockName">> ELSE <<>>)
                    \o (IF resetAttrs THEN <<"Initialized attrs as empty object">>
                        ELSE <<>>)
                    \o (IF resetInner THEN <<"Reset innerBlocks to empty array">>
                        ELSE <<>>)]

\* The input block after autoFixBlock: fixed = { ...block } shares block.attrs,
\* so a generated block_id is written into the caller's attrs object.
InputAfterFix(block, gen) ==
    IF StartsWithTpgb(block.blockName) /\ block.attrs.block_id = NoId
       /\ block.attrs.kind \in {"object", "array"}
    THEN [block EXCEPT !.attrs.block_id = gen]
    ELSE block

FixNotRun ==
    [done |-> FALSE, throws |-> FALSE, input |-> <<>>, blocks |-> <<>>,
     valid |-> FALSE, errors |-> <<>>, warnings |-> <<>>, fixes_applied |-> <<>>]

\* validateAndFix(blocks); gens[i] is the identifier randomBytes yields for
\* top-level block i.
validateAndFix(blocks, gens) ==
    IF \E i \in 1..Len(blocks) : autoFixThrows(blocks[i])
    THEN [FixNotRun EXCEPT !.done = TRUE, !.throws = TRUE, !.input = blocks]
    ELSE LET each == [i \in 1..Len(blocks) |-> autoFixBlock(blocks[i], gens[i])]
             fixedBlocks == [i \in 1..Len(blocks) |-> each[i].fixed]
             validation == validateBlocks(fixedBlocks)
         IN [done |-> TRUE, throws |-> FALSE, input |-> blocks,
             blocks |-> fixedBlocks,
             valid |-> validation.valid,
             errors |-> validation.errors,
             warnings |-> validation.warnings,
             fixes_applied |->
                 Flatten([i \in 1..Len(blocks) |->
                     IF Len(each[i].changes) > 0
                     THEN <<[block |-> i - 1, changes |-> each[i].changes]>>
                     ELSE <<>>])]

(***************************************************************************)
(* Schema-aware validation.  A schema's attributes are a sequence of       *)
(* [name, def] in the order Object.entries yields them.                    *)
(***************************************************************************)
NoPattern == [present |-> FALSE, wellFormed |-> TRUE, lang |-> {}]

\* A pattern is what RegExp makes of it: whether it compiles, and the strings
\* of the model it matches.
Pattern(wellFormed, lang) == [present |-> TRUE, wellFormed |-> wellFormed, lang |-> lang]

\* An attribute definition; type "" and a bound of -1 stand for an absent key.
AttrDef(required, type, hasEnum, enum, pattern) ==
    [required |-> required, type |-> type, hasEnum |-> hasEnum, enum |-> enum,
     pattern |-> pattern,
     minimum |-> -1, maximum |-> -1, minLength |-> -1, maxLength |-> -1]

Value(type, v, n) == [type |-> type, v |-> v, n |-> n]

HasValue(block, name) == block.attrs.kind = "object" /\ name \in DOMAIN block.attrs.props

\* validateAttributeType: is there a type error?
validateAttributeType(value, expectedType) ==
    CASE expectedType = "array" -> value.type # "array"
      [] expectedType = "object" -> value.type \notin {"object", "null"}
      [] OTHER -> value.type = "array" \/
                  (IF value.type = "null" THEN "object" ELSE value.type) # expectedType

\* The errors validateBlockAgainstSchema pushes for one declared attribute.
AttrErrors(block, name, def) ==
    IF ~HasValue(block, name)
    THEN IF def.required THEN <<missingFieldError(name)>> ELSE <<>>
    ELSE LET value == block.attrs.props[name] IN
         IF def.type # "" /\ validateAttributeType(value, def.type)
         THEN <<validationError(name, block.blockName)>>
         ELSE (IF def.hasEnum /\ ~(value.type = "string" /\ SeqHas(def.enum, value.v))
               THEN <<validationError(name, block.blockName)>> ELSE <<>>)
              \o (IF def.pattern.present /\ value.type = "string"
                     /\ value.v \notin def.pattern.lang
                  THEN <<validationError(name, block.blockName)>> ELSE <<>>)

\* new RegExp(attrDef.pattern) raises a SyntaxError on a malformed pattern.
AttrThrows(block, name, def) ==
    /\ HasValue(block, name)
    /\ ~(def.type # "" /\ validateAttributeType(block.attrs.props[name], def.type))
    /\ def.pattern.present /\ ~def.pattern.wellFormed
    /\ block.attrs.props[name].type = "string"

AttrWarnings(block, name, def) ==
    IF ~HasValue(block, name) THEN <<>>
    ELSE LET value == block.attrs.props[name] IN
         IF def.type # "" /\ validateAttributeType(value, def.type) THEN <<>>
         ELSE (IF value.type = "number" /\ def.minimum >= 0 /\ value.n < def.minimum
               THEN <<Warning("below minimum", NoField, <<>>, name)>> ELSE <<>>)
              \o (IF value.type = "number" /\ def.maximum >= 0 /\ value.n > def.maximum
                  THEN <<Warning("above maximum", NoField, <<>>, name)>> ELSE <<>>)
              \o (IF value.type = "string" /\ def.minLength >= 0
                     /\ Len(value.v) < def.minLength
                  THEN <<Warning("below minimum length", NoField, <<>>, name)>>
                  ELSE <<>>)
              \o (IF value.type = "string" /\ def.maxLength >= 0
                     /\ Len(value.v) > def.maxLength
                  THEN <<Warning("above maximum length", NoField, <<>>, name)>>
                  ELSE <<>>)

\* Attribute names of the model, in the order the agent's objects list them.
AttrOrder == <<"title", "foo", "size", "extra">>

Declared(schema, name) == \E k \in 1..Len(schema.attributes) : schema.attributes[k].name = name

\* Unknown attributes; block_id and className are never reported.
UnknownWarnings(block, schema) ==
    Flatten([k \in 1..Len(AttrOrder) |->
        IF HasValue(block, AttrOrder[k]) /\ ~Declared(schema, AttrOrder[k])
        THEN <<Warning("unknown attribute", NoField, <<>>, AttrOrder[k])>>
        ELSE <<>>])

NoSchema == [known |-> FALSE, hasAttributes |-> FALSE, attributes |-> <<>>]

BlockSchema(attributes) == [known |-> TRUE, hasAttributes |-> TRUE, attributes |-> attributes]

validateBlockAgainstSchema(block, schema) ==
    IF ~schema.known \/ ~schema.hasAttributes
    THEN ValidationResult(<<>>, <<Warning("no schema", NoField, <<>>, "")>>)
    ELSE ValidationResult(
            Flatten([k \in 1..Len(schema.attributes) |->
                AttrErrors(block, schema.attributes[k].name, schema.attributes[k].def)]),
            Flatten([k \in 1..Len(schema.attributes) |->
                AttrWarnings(block, schema.attributes[k].name, schema.attributes[k].def)])
            \o UnknownWarnings(block, schema))

\* schemas.get(block.blockName)
SchemaFor(schemas, name) == IF name \in DOMAIN schemas THEN schemas[name] ELSE NoSchema

\* Path prefix of validateBlockWithSchema: `${path}.${field}`, or the path
\* alone for an error without a field.
PathError(path, error) ==
    IF error.field # NoField
    THEN [error EXCEPT !.field = path \o error.field]
    ELSE StructuredError(error.code, path, "", "")

PathWarning(path, warning) == [warning EXCEPT !.path = path]

RECURSIVE validateBlockWithSchema(_, _, _)
validateBlockWithSchema(block, path, schemas) ==
    LET schema == SchemaFor(schemas, block.blockName)
        own == IF schema.known THEN validateBlockAgainstSchema(block, schema)
               ELSE ValidationResult(<<>>, <<>>)
        items == IF block.innerBlocks.kind = "array" THEN block.innerBlocks.items
                 ELSE <<>>
        inner == [i \in 1..Len(items) |->
                    validateBlockWithSchema(items[i],
                                            path \o <<Seg("innerBlocks", i - 1)>>,
                                            schemas)]
    IN [errors |-> [k \in 1..Len(own.errors) |-> PathError(path, own.errors[k])]
                   \o Flatten([i \in 1..Len(items) |-> inner[i].errors]),
        warnings |-> [k \in 1..Len(own.warnings) |-> PathWarning(path, own.warnings[k])]
                     \o Flatten([i \in 1..Len(items) |-> inner[i].warnings])]

RECURSIVE SchemaThrows(_, _)
SchemaThrows(blocks, schemas) ==
    \E i \in 1..Len(blocks) :
        LET b == blocks[i]
            schema == SchemaFor(schemas, b.blockName)
        IN \/ /\ schema.known /\ schema.hasAttributes
              /\ \E k \in 1..Len(schema.attributes) :
                    AttrThrows(b, schema.attributes[k].name, schema.attributes[k].def)
           \/ b.innerBlocks.kind = "array" /\ SchemaThrows(b.innerBlocks.items, schemas)

validateBlocksWithSchemas(blocks, schemas) ==
    LET basicValidation == validateBlocks(blocks)
        each == [i \in 1..Len(blocks) |->
                    validateBlockWithSchema(blocks[i], <<Seg("blocks", i - 1)>>, schemas)]
    IN ValidationResult(
           basicValidation.errors \o Flatten([i \in 1..Len(blocks) |-> each[i].errors]),
           basicValidation.warnings
           \o Flatten([i \in 1..Len(blocks) |-> each[i].warnings]))

(***************************************************************************)
(* The validate_content tool over bounded trees and schema maps.           *)
(***************************************************************************)
Heading == "tpgb/tp-heading"

Container == "tpgb/tp-container"

PropsOk == "title" :> Value("string", "ok", 0)

\* Attribute maps an agent writes for a heading: foo of the wrong type, outside
\* the enum, inside the enum but not matching the pattern, and a map with an
\* undeclared attribute and a size below the minimum.
HeadingProps ==
    {NoProps, PropsOk,
     PropsOk @@ ("foo" :> Value("number", "", 5)),
     PropsOk @@ ("foo" :> Value("string", "z", 0)),
     PropsOk @@ ("foo" :> Value("string", "b", 0)),
     PropsOk @@ ("foo" :> Value("string", "a", 0)) @@ ("size" :> Value("number", "", 0))
             @@ ("extra" :> Value("boolean", "", 0))}

Leaf(name, attrs) ==
    [blockName |-> name, attrs |-> attrs, innerBlocks |-> NoInner,
     innerHTML |-> NoMarkup, innerContent |-> NoContent]

ArrayAttrs == [kind |-> "array", block_id |-> NoId, props |-> NoProps]

Leaves ==
    {Leaf(Heading, ObjAttrs(Base1, props)) : props \in HeadingProps}
    \cup {Leaf(Heading, ObjAttrs(NoId, NoProps)),
          Leaf(Heading, ObjAttrs(<<"z", "z">>, NoProps)),
          Leaf(Heading, ScalarAttrs("string")),
          Leaf(Heading, ScalarAttrs("undefined")),
          Leaf(Heading, ArrayAttrs),
          MarkedBlk(Heading, Base1, NoInner),
          Leaf("core/paragraph", ObjAttrs(NoId, NoProps)),
          Leaf("core/paragraph", ScalarAttrs("string")),
          Leaf("heading", ObjAttrs(NoId, NoProps)),
          Leaf("Bad Name", ScalarAttrs("undefined")),
          Leaf("tpgb/Bad", ObjAttrs(Base1, NoProps)),
          Leaf("", ObjAttrs(NoId, NoProps)),
          [Leaf(Container, ObjAttrs(Base1, NoProps))
              EXCEPT !.innerBlocks = [kind |-> "string", items |-> <<>>]]}

Wrap(children) == Blk(Container, Base2, ArrayOf(children))

Sibling == Leaf(Heading, ObjAttrs(Base1, PropsOk))

\* Trees: empty, one block, two siblings, and a block nested one or two
\* levels down, alone or after a sibling (blocks[1].innerBlocks[0]).
ValTrees ==
    {<<>>}
    \cup {<<l>> : l \in Leaves}
    \cup {<<Sibling, l>> : l \in Leaves}
    \cup {<<Wrap(<<l>>)>> : l \in Leaves}
    \cup {<<Sibling, Wrap(<<l>>)>> : l \in Leaves}
    \cup {<<Wrap(<<Sibling, l>>)>> : l \in Leaves}
    \cup {<<Wrap(<<Wrap(<<l>>)>>)>> : l \in Leaves}

Attr(name, def) == [name |-> name, def |-> def]

HeadingSchema(fooPatternCompiles) ==
    BlockSchema(<<
        Attr("title", AttrDef(TRUE, "string", FALSE, <<>>, NoPattern)),
        Attr("foo", AttrDef(FALSE, "string", TRUE, <<"a", "b">>,
                            Pattern(fooPatternCompiles, {"a"}))),
        Attr("size", [AttrDef(FALSE, "number", FALSE, <<>>, NoPattern)
                         EXCEPT !.minimum = 1])>>)

\* The schemas Map: empty, the heading schema, and a heading schema whose
\* pattern does not compile next to a container schema without attributes.
ValSchemaMaps ==
    {[n \in {} |-> NoSchema],
     Heading :> HeadingSchema(TRUE),
     (Heading :> HeadingSchema(FALSE))
         @@ (Container :> [known |-> TRUE, hasAttributes |-> FALSE, attributes |-> <<>>])}

ResultNotRun ==
    [done |-> FALSE, input |-> <<>>, status |-> "", valid |-> FALSE,
     errors |-> <<>>, warnings |-> <<>>]

SchemaNotRun ==
    [done |-> FALSE, throws |-> FALSE, input |-> <<>>, valid |-> FALSE,
     errors |-> <<>>, warnings |-> <<>>]

ValInit ==
    /\ LifeIdle /\ FinIdle /\ SchemaIdle /\ ToolIdle /\ FmtIdle /\ RefIdle /\ BrowseIdle /\ ReloadIdle /\ DispatchIdle /\ RetryIdle
    /\ vTree \in ValTrees
    /\ vSchemas \in ValSchemaMaps
    /\ vPhase = "start"
    /\ vResult = ResultNotRun
    /\ vFix = [FixNotRun EXCEPT !.valid = FALSE]
    /\ vSchemaResult = SchemaNotRun

\* Mutant of blocksAfterValidate: the validator writes the block_id it reports
\* as missing into the top-level blocks, as autoFixBlock does.
blocksAfterValidateWriting(blocks) ==
    [i \in 1..Len(blocks) |-> InputAfterFix(blocks[i], <<"0", "0", "0", "0">>)]

\* The caller's blocks after validateBlocks / validateBlocksWithSchemas: the
\* only assignments of validateBlock, validateBlocks and validateBlockWithSchema
\* are to error.details of the errors the helpers just created and to their
\* own errors / warnings arrays; no block, attrs or innerBlocks is written.
blocksAfterValidate(blocks) == blocks

\* handleValidateContent without auto_fix; strict turns warnings into a failure.
ValidateContent(strict) ==
    /\ vPhase # "idle"
    /\ LET validation == validateBlocks(vTree)
           failStrict == strict /\ Len(validation.warnings) > 0
       IN vResult' = [done |-> TRUE, input |-> vTree,
                      status |-> IF failStrict \/ ~validation.valid
                                 THEN "error" ELSE "success",
                      valid |-> ~failStrict /\ validation.valid,
                      errors |-> validation.errors,
                      warnings |-> validation.warnings]
    /\ vTree' = blocksAfterValidate(vTree)
    /\ vPhase' = "validate"
    /\ UNCHANGED <<vSchemas, vFix, vSchemaResult, lifeVars, finVars, schemaVars, toolVars, fmtVars, refVars, browseVars, reloadVars, dispatchVars, retryVars>>

\* The caller's blocks after validateAndFix: blocks.map stops at the first
\* block whose fix throws; the blocks before it keep their generated ids.
InputsAfterFix(blocks, gens) ==
    [i \in 1..Len(blocks) |->
        IF \E j \in 1..i : autoFixThrows(blocks[j]) THEN blocks[i]
        ELSE InputAfterFix(blocks[i], gens[i])]

\* handleValidateContent with auto_fix: true.
ValidateContentAutoFix ==
    /\ vPhase # "idle"
    /\ \E gens \in [1..Len(vTree) -> FixGenIds] :
          /\ vFix' = validateAndFix(vTree, gens)
          /\ vTree' = InputsAfterFix(vTree, gens)
    /\ vPhase' = "fix"
    /\ UNCHANGED <<vSchemas, vResult, vSchemaResult, lifeVars, finVars, schemaVars, toolVars, fmtVars, refVars, browseVars, reloadVars, dispatchVars, retryVars>>

\* The schema-based validation step of handleCreateContent.
ValidateWithSchemas ==
    /\ vPhase # "idle"
    /\ vSchemaResult' =
          IF SchemaThrows(vTree, vSchemas)
          THEN [SchemaNotRun EXCEPT !.done = TRUE, !.throws = TRUE, !.input = vTree]
          ELSE LET r == validateBlocksWithSchemas(vTree, vSchemas)
               IN [done |-> TRUE, throws |-> FALSE, input |-> vTree,
                   valid |-> r.valid, errors |-> r.errors, warnings |-> r.warnings]
    /\ vTree' = blocksAfterValidate(vTree)
    /\ vPhase' = "schema"
    /\ UNCHANGED <<vSchemas, vResult, vFix, lifeVars, finVars, schemaVars, toolVars, fmtVars, refVars, browseVars, reloadVars, dispatchVars, retryVars>>

\* The agent takes the blocks the auto-fix call returned as its next input.
ResubmitFixed ==
    /\ vFix.done /\ ~vFix.throws
    /\ vTree # vFix.blocks
    /\ vTree' = vFix.blocks
    /\ vPhase' = "resubmit"
    /\ UNCHANGED <<vSchemas, vResult, vFix, vSchemaResult, lifeVars, finVars, schemaVars, toolVars, fmtVars, refVars, browseVars, reloadVars, dispatchVars, retryVars>>

ValNext ==
    \/ \E strict \in BOOLEAN : ValidateContent(strict)
    \/ ValidateContentAutoFix
    \/ ValidateWithSchemas
    \/ ResubmitFixed

SpecValidate == ValInit /\ [][ValNext]_vars

(***************************************************************************)
(* Properties of the validator.                                            *)
(***************************************************************************)
IsIdentityOrAttrsError(e) ==
    \/ e.code = "MISSING_BLOCK_ID"
    \/ e.field # NoField /\ e.field[Len(e.field)] = "attrs"

\* C6: auto-fix convergence.  For every tree, nested offenders included, the
\* errors of validate(autoFix(tree).fixed) contain no missing-identifier error
\* and no attrs-not-object error that validate(tree) already reported.
C6_AutoFixConverges ==
    (vFix.done /\ ~vFix.throws) =>
        LET before == validateBlocks(vFix.input).errors
            after == validateBlocks(vFix.blocks).errors
        IN \A k \in 1..Len(after) :
               IsIdentityOrAttrsError(after[k]) => ~SeqHas(before, after[k])

\* C7: every schema-aware attribute error on attribute a of the block at path
\* p (such as blocks[1].innerBlocks[0]) has the field path p.attrs.a.
C7_SchemaErrorPathHasAttrs ==
    (vSchemaResult.done /\ ~vSchemaResult.throws) =>
        LET structural == Len(validateBlocks(vSchemaResult.input).errors)
        IN \A k \in (structural + 1)..Len(vSchemaResult.errors) :
               LET f == vSchemaResult.errors[k].field
               IN Len(f) >= 3 /\ f[Len(f) - 1] = "attrs"

BeginsWith(f, p) == Len(f) >= Len(p) /\ SubSeq(f, 1, Len(p)) = p

\* C8: every structural error and every warning emitted for the child at
\* innerBlocks[j] of top-level block i, at any depth below it, is reported
\* under a path that begins with blocks[i].innerBlocks[j].
C8_ChildFindingsRerooted ==
    vResult.done =>
        \A i \in 1..Len(vResult.input) :
            vResult.input[i].innerBlocks.kind = "array" =>
                \A j \in 1..Len(vResult.input[i].innerBlocks.items) :
                    LET child == validateBlock(vResult.input[i].innerBlocks.items[j])
                        p == <<Seg("blocks", i - 1), Seg("innerBlocks", j - 1)>>
                    IN /\ Cardinality({k \in 1..Len(vResult.errors) :
                                          BeginsWith(vResult.errors[k].field, p)})
                          = Len(child.errors)
                       /\ Cardinality({k \in 1..Len(vResult.warnings) :
                                          BeginsWith(vResult.warnings[k].path, p)})
                          = Len(child.warnings)

\* Every identifier of the tree, one entry per occurrence, at every depth.
RECURSIVE AllIds(_)
AllIds(blocks) ==
    IF blocks = <<>> THEN <<>>
    ELSE LET b == Head(blocks)
         IN (IF b.attrs.block_id # NoId THEN <<b.attrs.block_id>> ELSE <<>>)
            \o (IF b.innerBlocks.kind = "array" THEN AllIds(b.innerBlocks.items)
                ELSE <<>>)
            \o AllIds(Tail(blocks))

Repeated(ids) ==
    {ids[k] : k \in {k \in 1..Len(ids) : \E j \in 1..Len(ids) : j # k /\ ids[j] = ids[k]}}

IsDuplicateWarning(w) == w.kind = "duplicate block_ids"

\* C9: the identifiers occurring more than once anywhere in the tree are
\* reported in exactly one warning naming each of them once, and add no error.
C9_DuplicatesAnywhereReportedOnce ==
    vResult.done =>
        LET repeated == Repeated(AllIds(vResult.input))
            reports == SelectSeq(vResult.warnings, IsDuplicateWarning)
        IN /\ Len(vResult.errors)
                = Len(Flatten([i \in 1..Len(vResult.input) |->
                                  validateBlock(vResult.input[i]).errors]))
           /\ IF repeated = {} THEN reports = <<>>
              ELSE /\ Len(reports) = 1
                   /\ {reports[1].ids[k] : k \in 1..Len(reports[1].ids)} = repeated
                   /\ Len(reports[1].ids) = Cardinality(repeated)

\* [{blockName: 'tpgb/tp-heading', attrs: {}}]
HeadingTree == <<Leaf(Heading, ObjAttrs(NoId, NoProps))>>

RECURSIVE getSchemas(_, _, _)
getSchemas(stores, cache, blockNames) ==
    IF blockNames = <<>> THEN [rejects |-> FALSE, schemas |-> <<>>, cache |-> cache]
    ELSE LET name == Head(blockNames) IN
         IF name \in DOMAIN cache
         THEN LET rest == getSchemas(stores, cache, Tail(blockNames))
              IN [rest EXCEPT !.schemas = <<cache[name]>> \o rest.schemas]
         ELSE LET got == getBlockSchema(stores[name], <<"full">>, TRUE) IN
              IF got.kind = "throws"
              THEN [rejects |-> TRUE, schemas |-> <<>>, cache |-> cache]
              ELSE IF got.kind = "null"
              THEN getSchemas(stores, cache, Tail(blockNames))
              ELSE LET rest == getSchemas(stores, (name :> got.schema) @@ cache,
                                          Tail(blockNames))
                   IN [rest EXCEPT !.schemas = <<got.schema>> \o rest.schemas]

\* getAllBlockNames(blocks): every blockName of the tree, in document order.
RECURSIVE getAllBlockNames(_)
getAllBlockNames(blocks) ==
    IF blocks = <<>> THEN <<>>
    ELSE LET b == Head(blocks) IN
         (IF b.blockName # "" THEN <<b.blockName>> ELSE <<>>)
         \o (IF b.innerBlocks.kind = "array" THEN getAllBlockNames(b.innerBlocks.items)
             ELSE <<>>)
         \o getAllBlockNames(Tail(blocks))

\* [...new Set(names)]
RECURSIVE Unique(_)
Unique(names) ==
    IF names = <<>> THEN <<>>
    ELSE LET front == Unique(SubSeq(names, 1, Len(names) - 1))
             last == names[Len(names)]
         IN IF SeqHas(front, last) THEN front ELSE Append(front, last)

\* Attribute names of the schema files, in the order the files list them.
SchemaKeyOrder == <<"title", "foo", "color", "typo">>

\* A loaded schema as validateBlockAgainstSchema reads it: Object.entries of
\* its attributes, each with its type (the files of the model declare no
\* required, enum, pattern or bounds).
EntriesOf(schema) ==
    [known |-> TRUE, hasAttributes |-> schema.hasAttributes,
     attributes |->
        Flatten([k \in 1..Len(SchemaKeyOrder) |->
            IF SchemaKeyOrder[k] \in DOMAIN schema.attributes
            THEN <<Attr(SchemaKeyOrder[k],
                        AttrDef(FALSE, schema.attributes[SchemaKeyOrder[k]].type,
                                FALSE, <<>>, NoPattern))>>
            ELSE <<>>])]

\* new Map(loadedSchemas.map(s => [s.blockName, s])): a schema without a
\* blockName key is stored under undefined and found by no block.
SchemaMapOf(schemas) ==
    LET keyed == {k \in 1..Len(schemas) : "blockName" \in DOMAIN schemas[k].top}
        names == {schemas[k].top["blockName"] : k \in keyed}
    IN [n \in names |->
          EntriesOf(schemas[CHOOSE k \in keyed :
                               /\ schemas[k].top["blockName"] = n
                               /\ \A j \in keyed :
                                     schemas[j].top["blockName"] = n => j <= k])]

(***************************************************************************)
(* Host-side validation (Nexter_MCP_Validator) behind POST /validate.      *)
(***************************************************************************)
\* collect_block_ids: every set block_id of the tree, one entry per block.
RECURSIVE collect_block_ids(_)
collect_block_ids(blocks) ==
    IF blocks = <<>> THEN <<>>
    ELSE LET b == Head(blocks) IN
         (IF b.attrs.block_id # NoId THEN <<b.attrs.block_id>> ELSE <<>>)
         \o (IF b.innerBlocks.kind = "array" THEN collect_block_ids(b.innerBlocks.items)
             ELSE <<>>)
         \o collect_block_ids(Tail(blocks))

\* find_duplicates: the values counted more than once, in first-seen order.
find_duplicates(ids) ==
    LET F[i \in 0..Len(ids)] ==
            IF i = 0 THEN <<>>
            ELSE IF (\E j \in 1..Len(ids) : j # i /\ ids[j] = ids[i])
                    /\ ~SeqHas(F[i - 1], ids[i])
            THEN Append(F[i - 1], ids[i])
            ELSE F[i - 1]
    IN F[Len(ids)]

HostError(kind, ids) == [kind |-> kind, ids |-> ids]

\* validate_block with validate_nexter_block: the errors of one block and of
\* the blocks below it (the repeater lists' _key checks have no counterpart
\* in the attribute maps of the model).
RECURSIVE validate_block(_)
validate_block(block) ==
    (IF block.blockName = "" THEN <<HostError("missing blockName", <<>>)>> ELSE <<>>)
    \o (IF block.attrs.kind \in {"undefined", "null"}
        THEN <<HostError("missing attrs object", <<>>)>> ELSE <<>>)
    \o (IF StartsWithTpgb(block.blockName) /\ block.attrs.block_id = NoId
        THEN <<HostError("missing required block_id", <<>>)>> ELSE <<>>)
    \o (IF block.innerBlocks.kind = "array"
        THEN Flatten([i \in 1..Len(block.innerBlocks.items) |->
                         validate_block(block.innerBlocks.items[i])])
        ELSE <<>>)

\* validate_block_tree($blocks, false): warnings never make the tree invalid.
validate_block_tree(blocks) ==
    LET duplicates == find_duplicates(collect_block_ids(blocks))
        errors == (IF duplicates # <<>>
                   THEN <<HostError("Duplicate block_ids found", duplicates)>>
                   ELSE <<>>)
                  \o Flatten([i \in 1..Len(blocks) |-> validate_block(blocks[i])])
    IN [valid |-> errors = <<>>, errors |-> errors]

(***************************************************************************)
(* The edit operations of handleEditContent.                               *)
(***************************************************************************)
\* new_attrs of an operation: the block_id key it may carry (NoId: none) and
\* its other keys, className among them.
NewAttrs(newId, props) == [block_id |-> newId, props |-> props]

\* { ...block.attrs, ...newAttrs }: a key of newAttrs wins.
SpreadAttrs(attrs, newAttrs) ==
    ObjAttrs(IF newAttrs.block_id # NoId THEN newAttrs.block_id ELSE attrs.block_id,
             newAttrs.props @@ attrs.props)

\* A merge that ends with the spread of newAttrs.
KeepCriticalNone(attrs, spread) == spread

\* block_id: block.attrs.block_id, className: block.attrs.className after
\* the spread; a className the block did not have is set to undefined, which
\* is no key in the JSON the host receives.
KeepCritical(attrs, spread) ==
    ObjAttrs(attrs.block_id,
             IF "className" \in DOMAIN attrs.props
             THEN ("className" :> attrs.props["className"]) @@ spread.props
             ELSE [k \in DOMAIN spread.props \ {"className"} |-> spread.props[k]])

\* modifyBlockAttributes: newAttrs over the attrs of every block of that id
\* (block.attrs?.block_id === blockId); the blocks below a match are not
\* visited.
RECURSIVE modifyBlockAttributes(_, _, _)
modifyBlockAttributes(blocks, blockId, newAttrs) ==
    [i \in 1..Len(blocks) |->
        LET block == blocks[i] IN
        IF block.attrs.block_id = blockId
        THEN [block EXCEPT !.attrs =
                 KeepCritical(block.attrs, SpreadAttrs(block.attrs, newAttrs))]
        ELSE IF block.innerBlocks.kind = "array" /\ Len(block.innerBlocks.items) > 0
        THEN [block EXCEPT !.innerBlocks =
                 ArrayOf(modifyBlockAttributes(block.innerBlocks.items, blockId,
                                               newAttrs))]
        ELSE block]

\* insertBlock: splice at position; a negative position means the end.
insertBlock(blocks, position, newBlock) ==
    LET insertAt == IF position < 0 \/ position > Len(blocks) THEN Len(blocks)
                    ELSE position
    IN SubSeq(blocks, 1, insertAt) \o <<newBlock>>
       \o SubSeq(blocks, insertAt + 1, Len(blocks))

RECURSIVE removeBlock(_, _)
removeBlock(blocks, blockId) ==
    IF blocks = <<>> THEN <<>>
    ELSE LET block == Head(blocks) IN
         IF block.attrs.block_id = blockId THEN removeBlock(Tail(blocks), blockId)
         ELSE <<IF block.innerBlocks.kind = "array" /\ Len(block.innerBlocks.items) > 0
                THEN [block EXCEPT !.innerBlocks =
                         ArrayOf(removeBlock(block.innerBlocks.items, blockId))]
                ELSE block>>
              \o removeBlock(Tail(blocks), blockId)

ModifyOp(blockId, newAttrs) ==
    [operation |-> "modify_block", block_id |-> blockId,
     new_attrs |-> NewAttrs(NoId, newAttrs), new_block |-> <<>>]

AddOp(newBlock) ==
    [operation |-> "add_block", block_id |-> NoId,
     new_attrs |-> NewAttrs(NoId, NoProps), new_block |-> <<newBlock>>]

RemoveOp(blockId) ==
    [operation |-> "remove_block", block_id |-> blockId,
     new_attrs |-> NewAttrs(NoId, NoProps), new_block |-> <<>>]

\* An operation whose name the switch does not know.
UnknownOp == [RemoveOp(NoId) EXCEPT !.operation = "move_block"]

Recognised(op) == op.operation \in {"modify_block", "add_block", "remove_block"}

\* One pass of the loop over args.operations (add_block without
\* target_position appends).
ApplyOperation(blocks, op) ==
    CASE op.operation = "modify_block" ->
             modifyBlockAttributes(blocks, op.block_id, op.new_attrs)
      [] op.operation = "add_block" -> insertBlock(blocks, Len(blocks), op.new_block[1])
      [] op.operation = "remove_block" -> removeBlock(blocks, op.block_id)

\* A loop that passes over an operation it does not know.
RECURSIVE ApplyOperationsSkipping(_, _)
ApplyOperationsSkipping(blocks, operations) ==
    IF operations = <<>> THEN [known |-> TRUE, blocks |-> blocks]
    ELSE ApplyOperationsSkipping(IF Recognised(Head(operations))
                                 THEN ApplyOperation(blocks, Head(operations))
                                 ELSE blocks,
                                 Tail(operations))

\* for (const op of operations): the default case returns from the handler.
RECURSIVE ApplyOperations(_, _)
ApplyOperations(blocks, operations) ==
    IF operations = <<>> THEN [known |-> TRUE, blocks |-> blocks]
    ELSE IF ~Recognised(Head(operations)) THEN [known |-> FALSE, blocks |-> blocks]
    ELSE ApplyOperations(ApplyOperation(blocks, Head(operations)), Tail(operations))

(***************************************************************************)
(* The create_content and edit_content tools, from the arguments to the    *)
(* host's reply.                                                           *)
(***************************************************************************)
MaxToolBlocks == 2     \* add_block is tried on posts of fewer top-level blocks

ToolPost == FirstPostId

NotSent == [op |-> "none", source |-> <<>>, blocks |-> <<>>, status |-> ""]

Sent(op, source, blocks) ==
    [op |-> op, source |-> source, blocks |-> blocks, status |-> ""]

\* A request that carries the status the agent asked for.
RequestStatusFromArgs(status) == IF status = "" THEN "draft" ELSE status

\* The status of the createContent request: the zod object schema has no
\* status key, and { ...validated.data, blocks, status: 'draft' } sets it.
RequestStatus(status) == "draft"

\* $status = $request->get_param('status'), 'draft' when the request has none;
\* it becomes the post_status of wp_insert_post.
create_content_status(param) == IF param = "" THEN "draft" ELSE param

NoReply ==
    [tool |-> "none", status |-> "none", code |-> "", source |-> <<>>,
     errors |-> <<>>, warnings |-> <<>>, hostErrors |-> <<>>,
     operations |-> <<>>, updates |-> 0]

Reply(tool, status, code, source) ==
    [NoReply EXCEPT !.tool = tool, !.status = status, !.code = code,
                    !.source = source]

\* A handler that lets an exception escape (the tool call fails).
Thrown(tool, source) == Reply(tool, "throws", "", source)

\* handleCreateContent(args): gens are the ids generateBlockId() would give.
handleCreateContent(blocks, status, gens) ==
    /\ LET loaded == getSchemas(toolStores, toolCache, Unique(getAllBlockNames(blocks)))
           schemaMap == SchemaMapOf(loaded.schemas)
       IN /\ toolCache' = IF Len(blocks) = 0 THEN toolCache ELSE loaded.cache
          /\ IF Len(blocks) = 0
             THEN /\ toolReply' = Reply("create_content", "error", "INVALID_INPUT", blocks)
                  /\ UNCHANGED <<hostTree, hostStatus, toolSent>>
             ELSE IF loaded.rejects \/ SchemaThrows(blocks, schemaMap)
             THEN /\ toolReply' = Thrown("create_content", blocks)
                  /\ UNCHANGED <<hostTree, hostStatus, toolSent>>
             ELSE LET blockValidation == validateBlocksWithSchemas(blocks, schemaMap)
                      formatted == preprocessBlocks(blocks, gens)
                      wpValidation == validate_block_tree(formatted)
                  IN IF ~blockValidation.valid
                     THEN /\ toolReply' =
                               [Reply("create_content", "error",
                                      "INVALID_BLOCK_STRUCTURE", blocks)
                                   EXCEPT !.errors = blockValidation.errors,
                                          !.warnings = blockValidation.warnings]
                          /\ UNCHANGED <<hostTree, hostStatus, toolSent>>
                     ELSE IF ~wpValidation.valid
                     THEN /\ toolReply' =
                               [Reply("create_content", "error",
                                      "WORDPRESS_VALIDATION_FAILED", blocks)
                                   EXCEPT !.warnings = blockValidation.warnings,
                                          !.hostErrors = wpValidation.errors]
                          /\ UNCHANGED <<hostTree, hostStatus, toolSent>>
                     ELSE /\ toolSent' = [Sent("createContent", blocks, formatted)
                                              EXCEPT !.status = RequestStatus(status)]
                          /\ IF validate_blocks_array(formatted)
                             THEN /\ hostTree' =
                                       Stored(append_post_id_to_blocks_array(formatted,
                                                                            ToolPost))
                                  /\ hostStatus' =
                                       create_content_status(RequestStatus(status))
                                  /\ toolReply' =
                                       [Reply("create_content", "success", "", blocks)
                                           EXCEPT !.warnings = blockValidation.warnings]
                             ELSE /\ toolReply' =
                                       Reply("create_content", "error",
                                             "CONTENT_CREATION_FAILED", blocks)
                                  /\ UNCHANGED <<hostTree, hostStatus>>
    /\ UNCHANGED <<toolStores, lifeVars, finVars, schemaVars, valVars, fmtVars, refVars, browseVars, reloadVars, dispatchVars, retryVars>>

\* handleEditContent(args): args.operations on the post the host holds.
\* updates counts the calls of wpClient.updateContent.
handleEditContent(operations, gens) ==
    /\ Len(hostTree.blocks)
         + Cardinality({i \in 1..Len(operations) : operations[i].operation = "add_block"})
       <= MaxToolBlocks
    /\ IF ~hostTree.exists
       THEN /\ toolReply' = [Thrown("edit_content", <<>>)
                                EXCEPT !.operations = operations]
            /\ UNCHANGED <<hostTree, hostStatus, toolSent>>
       ELSE LET applied == ApplyOperations(hostTree.blocks, operations)
                blocks == applied.blocks
                blockValidation == validateBlocks(blocks)
                formatted == preprocessBlocks(blocks, gens)
                validation == validate_block_tree(formatted)
            IN IF ~applied.known
               THEN /\ toolReply' =
                         [Reply("edit_content", "error", "Unknown operation", blocks)
                             EXCEPT !.operations = operations]
                    /\ UNCHANGED <<hostTree, hostStatus, toolSent>>
               ELSE IF ~blockValidation.valid
               THEN /\ toolReply' =
                         [Reply("edit_content", "error", "local block validation", blocks)
                             EXCEPT !.errors = blockValidation.errors,
                                    !.warnings = blockValidation.warnings,
                                    !.operations = operations]
                    /\ UNCHANGED <<hostTree, hostStatus, toolSent>>
               ELSE IF ~validation.valid
               THEN /\ toolReply' =
                         [Reply("edit_content", "error", "validation", blocks)
                             EXCEPT !.hostErrors = validation.errors,
                                    !.operations = operations]
                    /\ UNCHANGED <<hostTree, hostStatus, toolSent>>
               ELSE /\ toolSent' = Sent("updateContent", blocks, formatted)
                    /\ IF validate_blocks_array(formatted)
                       THEN /\ hostTree' =
                                 Stored(ensure_blocks_have_post_id(formatted, ToolPost))
                            /\ UNCHANGED hostStatus
                            /\ toolReply' =
                                 [Reply("edit_content", "success", "", blocks)
                                     EXCEPT !.warnings = blockValidation.warnings,
                                            !.operations = operations,
                                            !.updates = 1]
                       ELSE /\ toolReply' =
                                 [Thrown("edit_content", blocks)
                                     EXCEPT !.operations = operations,
                                            !.updates = 1]
                            /\ UNCHANGED <<hostTree, hostStatus>>
    /\ UNCHANGED <<toolStores, toolCache, lifeVars, finVars, schemaVars, valVars, fmtVars, refVars, browseVars, reloadVars, dispatchVars, retryVars>>

Base1AtPost == Base1 \o Underscore \o ToDec(ToolPost)

Base2AtPost == Base2 \o Underscore \o ToDec(ToolPost)

StoredHeading(id, props) ==
    [MarkedBlk(Heading, id, ArrayOf(<<>>)) EXCEPT !.attrs = ObjAttrs(id, props)]

\* Posts the host already holds: none, one heading, a heading and a container
\* with a heading in it.
HostPosts ==
    {NoPost,
     Stored(<<StoredHeading(Base1AtPost, PropsOk)>>),
     Stored(<<StoredHeading(Base1AtPost, PropsOk),
              MarkedBlk(Container, Base2AtPost,
                        ArrayOf(<<StoredHeading(<<"c", "4", "d", "9">> \o Underscore
                                                    \o ToDec(ToolPost), PropsOk)>>))>>)}

BadFoo == PropsOk @@ ("foo" :> Value("number", "", 5))

\* args.blocks of create_content: valid trees, a tree with a schema violation,
\* one with a structural error, and trees with a repeated identifier.
ToolTrees ==
    {<<>>,
     <<Sibling>>,
     <<Leaf(Heading, ObjAttrs(Base1, BadFoo))>>,
     <<Leaf(Heading, ObjAttrs(NoId, PropsOk))>>,
     <<Sibling, Sibling>>,
     <<Sibling, Wrap(<<Leaf(Heading, ObjAttrs(<<"c", "4", "d", "9">>, PropsOk))>>)>>,
     <<Wrap(<<Sibling, Sibling>>)>>,
     <<Leaf("core/paragraph", ObjAttrs(NoId, NoProps))>>,
     <<Sibling, Leaf("core/paragraph", ObjAttrs(NoId, NoProps))>>}

EditOps ==
    {ModifyOp(Base1AtPost, "title" :> Value("string", "new", 0)),
     ModifyOp(Base1AtPost, "foo" :> Value("number", "", 5)),
     AddOp(StoredHeading(Base2, PropsOk)),
     AddOp(StoredHeading(Base1AtPost, PropsOk)),
     RemoveOp(Base1AtPost)}

NoStore == [dir |-> FALSE, legacy |-> MissingFile, files |-> [l \in Levels |-> MissingFile]]

StagedFull(file) ==
    [dir |-> TRUE, legacy |-> MissingFile,
     files |-> [l \in Levels |-> IF l = "full" THEN file ELSE MissingFile]]

HeadingFile ==
    File(SchemaData("blockName" :> Heading, TRUE,
                    Attrs1("title", StringDef) @@ Attrs1("foo", StringDef)))

ContainerFile == File(SchemaData("blockName" :> Container, TRUE, NoAttributes))

\* A staged directory with a core.json and no other level file.
StagedCoreOnly ==
    [dir |-> TRUE, legacy |-> MissingFile,
     files |-> [l \in Levels |-> IF l = "core" THEN HeadingFile ELSE MissingFile]]

\* The schema files per block type: none at all, a full.json, a full.json
\* that does not parse, a directory without full.json, a legacy flat file.
ToolStoreMaps ==
    {(Heading :> h) @@ (Container :> c) @@ ("core/paragraph" :> NoStore) :
        h \in {NoStore, StagedFull(HeadingFile), StagedFull(MalformedFile),
               StagedCoreOnly,
               [NoStore EXCEPT !.legacy = HeadingFile],
               [NoStore EXCEPT !.legacy = MalformedFile]},
        c \in {NoStore, StagedFull(ContainerFile)}}

\* args.status of a create_content call: left out, or asking for publication.
ArgStatuses == {"", "publish"}

ToolInit ==
    /\ LifeIdle /\ FinIdle /\ SchemaIdle /\ ValIdle /\ FmtIdle /\ RefIdle /\ BrowseIdle /\ ReloadIdle /\ DispatchIdle /\ RetryIdle
    /\ hostTree \in HostPosts
    /\ hostStatus = IF hostTree.exists THEN "publish" ELSE ""
    /\ toolStores \in ToolStoreMaps
    /\ toolCache = [n \in {} |-> EmptySchema]
    /\ toolSent = NotSent
    /\ toolReply = NoReply

ToolNext ==
    \/ \E blocks \in ToolTrees : \E status \in ArgStatuses : \E gen \in ClientGenIds :
          handleCreateContent(blocks, status, [i \in 1..Len(blocks) |-> gen])
    \/ \E op \in EditOps : \E gen \in ClientGenIds :
          handleEditContent(<<op>>, [i \in 1..(MaxToolBlocks + 1) |-> gen])

SpecTools == ToolInit /\ [][ToolNext]_vars

\* The schemas Map handleCreateContent would build for a tree.
LoadedFor(blocks) == getSchemas(toolStores, toolCache, Unique(getAllBlockNames(blocks)))

\* C12: the host's createContent / updateContent is only ever called for a
\* tree that passed the structural validation and the schema-aware
\* validation, in create_content and in edit_content alike.
C12_SubmissionsAreGated ==
    toolSent.op # "none" =>
        /\ validateBlocks(toolSent.source).valid
        /\ ~LoadedFor(toolSent.source).rejects
        /\ validateBlocksWithSchemas(toolSent.source,
                                     SchemaMapOf(LoadedFor(toolSent.source).schemas)).valid

\* C13: validate, validateWithSchemas and validate-and-fix return a
\* ValidationResult for every input tree and schema map; none of them raises.
C13_ValidationNeverThrows ==
    /\ vFix.done => ~vFix.throws
    /\ vSchemaResult.done => ~vSchemaResult.throws

StoreNames == {Heading, Container, "core/paragraph"}

IsMalformed(store) ==
    \/ store.dir /\ store.files["full"].exists /\ ~store.files["full"].parses
    \/ ~store.dir /\ store.legacy.exists /\ ~store.legacy.parses

\* C15: a schema file that does not parse aborts only the load of its own
\* type: a create_content call whose tree names that type still gets the
\* schemas of its other types (getSchemas completes and the call is answered),
\* and a missing level file is skipped, the load giving the merge of the
\* levels that exist.
C15_MalformedFileAbortsOnlyItsType ==
    /\ (toolReply.tool = "create_content" /\ Len(toolReply.source) > 0) =>
           /\ toolReply.status # "throws"
           /\ \A k \in 1..Len(getAllBlockNames(toolReply.source)) :
                  LET n == getAllBlockNames(toolReply.source)[k] IN
                  (~IsMalformed(toolStores[n])
                      /\ getBlockSchema(toolStores[n], <<"full">>, TRUE).kind = "schema")
                  => n \in DOMAIN toolCache
    /\ \A n \in StoreNames :
           (toolStores[n].dir /\ ~toolStores[n].files["full"].exists) =>
               \A levels \in ReqLists :
                   getBlockSchema(toolStores[n], levels, TRUE)
                       = Returned(ResolveSchema(
                             MergeLevels(toolStores[n].files, levels, EmptySchema)))

\* C16: for a type with no schema file at all getBlockSchema gives null for
\* every levels list, and a create_content call on a structurally valid tree
\* of such types is neither failed nor rejected as invalid for want of a schema.
C16_UnknownTypeIsNotFatal ==
    /\ \A n \in StoreNames :
           toolStores[n] = NoStore =>
               \A levels \in ReqLists :
                   getBlockSchema(toolStores[n], levels, TRUE) = ReturnedNull
    /\ (/\ toolReply.tool = "create_content" /\ Len(toolReply.source) > 0
        /\ \A k \in 1..Len(getAllBlockNames(toolReply.source)) :
              toolStores[getAllBlockNames(toolReply.source)[k]] = NoStore
        /\ validateBlocks(toolReply.source).valid)
       => /\ toolReply.status # "throws"
          /\ toolReply.code # "INVALID_BLOCK_STRUCTURE"

\* A valid heading tree whose type has no schema file was created.
C16_Witness ==
    /\ toolReply.tool = "create_content" /\ toolReply.status = "success"
    /\ toolReply.source = <<Sibling>>
    /\ toolStores[Heading] = NoStore
    /\ toolSent.op = "createContent"

\* C19: a tree whose only defect is a repeated identifier is warned about and
\* still submitted: no create_content or edit_content call is turned down by
\* the host-side validation with the duplicate report as its only error.
C19_DuplicatesDoNotBlockSubmission ==
    (toolReply.hostErrors # <<>>) =>
        \E k \in 1..Len(toolReply.hostErrors) :
            toolReply.hostErrors[k].kind # "Duplicate block_ids found"

\* ---------------------------------------------------------------------
\* The formatter called repeatedly on one tree object.

MaxFormatCalls == 2

\* The caller's tree after preprocessBlocks(blocks): attrs is spread into a
\* new object, so nothing of the argument is assigned.
blocksAfterPreprocess(blocks, gens) == blocks

\* The caller's tree after formatBlocksForWordPress(blocks, postId): formatBlock
\* assigns block.attrs.block_id at every level (lines 98-106) and builds its
\* result around the same attrs object; formatted is what the call returned.
RECURSIVE blocksAfterFormat(_, _)
blocksAfterFormat(blocks, formatted) ==
    [i \in 1..Len(blocks) |->
        [blocks[i] EXCEPT
            !.attrs = [@ EXCEPT !.block_id = formatted[i].attrs.block_id],
            !.innerBlocks =
                IF @.kind = "array"
                THEN ArrayOf(blocksAfterFormat(@.items, formatted[i].innerBlocks.items))
                ELSE @]]

NoCalls == [fn |-> "none", given |-> <<>>, outs |-> <<>>]

\* The trees that pass validateBlocks, which is what the create and update
\* handlers require before they format.
FmtTrees == {t \in ToolTrees \cup ValTrees : Len(t) > 0 /\ validateBlocks(t).valid}

FmtInit ==
    /\ fmtTree \in FmtTrees
    /\ fmtCall = NoCalls
    /\ LifeIdle /\ FinIdle /\ SchemaIdle /\ ValIdle /\ ToolIdle /\ RefIdle /\ BrowseIdle /\ ReloadIdle /\ DispatchIdle /\ RetryIdle

CallRecord(fn, out) ==
    [fn |-> fn,
     given |-> IF fmtCall.fn = "none" THEN fmtTree ELSE fmtCall.given,
     outs |-> Append(fmtCall.outs, out)]

\* preprocessBlocks(blocks) on the caller's tree.
PreprocessCall(gens) ==
    /\ Len(fmtCall.outs) < MaxFormatCalls
    /\ fmtCall.fn \in {"none", "preprocessBlocks"}
    /\ fmtCall' = CallRecord("preprocessBlocks", preprocessBlocks(fmtTree, gens))
    /\ fmtTree' = blocksAfterPreprocess(fmtTree, gens)
    /\ UNCHANGED <<lifeVars, finVars, schemaVars, valVars, toolVars, refVars, browseVars, reloadVars, dispatchVars, retryVars>>

\* formatBlocksForWordPress(blocks, postId) on the caller's tree; postId 0
\* stands for the argument left out.
FormatCall(postId, gens) ==
    /\ Len(fmtCall.outs) < MaxFormatCalls
    /\ fmtCall.fn \in {"none", "formatBlocksForWordPress"}
    /\ ~FormatThrows(fmtTree)
    /\ LET formatted == formatBlocksForWordPress(fmtTree, postId, gens) IN
       /\ fmtCall' = CallRecord("formatBlocksForWordPress", formatted)
       /\ fmtTree' = blocksAfterFormat(fmtTree, formatted)
    /\ UNCHANGED <<lifeVars, finVars, schemaVars, valVars, toolVars, refVars, browseVars, reloadVars, dispatchVars, retryVars>>

FmtNext ==
    \/ \E gen \in ClientGenIds :
          PreprocessCall([i \in 1..Len(fmtTree) |-> gen])
    \/ \E postId \in {0, ToolPost} :
          \E gens \in [1..NeedIds(fmtTree) -> ClientGenIds] :
             FormatCall(postId, gens)

SpecFormat == FmtInit /\ [][FmtNext]_vars

\* C20: the formatter leaves the tree it is given deep-equal to what it was
\* and returns the same output every time it is called on it, for every
\* validated tree.
C20_FormatterPureAndDeterministic ==
    fmtCall.outs # <<>> =>
        /\ fmtTree = fmtCall.given
        /\ \A k \in 1..Len(fmtCall.outs) : fmtCall.outs[k] = fmtCall.outs[1]

\* ---------------------------------------------------------------------
\* resolve$ref with its depth guard, over definitions that point at one
\* another.  A schema value is <<"string">> (a primitive, or an object without
\* pointers), <<"ref", n>> ({ $ref: "definitions://d<n>" }), or <<"object", v>>
\* (an object holding the value v under a key).

MaxRefDepth == 10

MaxChain == 15

Primitive == <<"string">>

Pointer(n) == <<"ref", n>>

Object(v) == <<"object", v>>

\* What resolve$ref returns once depth > 10: its argument, as it is.
BeyondDepthRaises(obj) == <<"raises">>

BeyondDepth(obj) == obj

Outcome(value, calls, warned) == [value |-> value, calls |-> calls, warned |-> warned]

\* resolve$ref(obj, depth); a definition is stored as what
\* "resolved.structure || resolved" gives once $id is deleted.
RECURSIVE resolveRef(_, _, _)
resolveRef(defs, obj, depth) ==
    IF depth > MaxRefDepth THEN Outcome(BeyondDepth(obj), 1, TRUE)
    ELSE IF obj[1] = "string" THEN Outcome(obj, 1, FALSE)
    ELSE IF obj[1] = "ref"
    THEN IF obj[2] \in DOMAIN defs
         THEN LET r == resolveRef(defs, defs[obj[2]], depth + 1) IN
              Outcome(r.value, r.calls + 1, r.warned)
         ELSE Outcome(Pointer(obj[2]), 1, FALSE)
    ELSE LET r == resolveRef(defs, obj[2], depth + 1) IN
         Outcome(Object(r.value), r.calls + 1, r.warned)

\* A chain d1 -> d2 -> ... -> d<len>; the last definition points back at
\* d<back>, or is a plain structure when back = 0.  A wrapped definition
\* holds its pointer one level down, { structure: { a: { $ref } } }.
Chain(len, back, wrapped) ==
    [n \in 1..len |->
        LET next == IF n < len THEN Pointer(n + 1)
                    ELSE IF back = 0 THEN Primitive ELSE Pointer(back)
        IN IF wrapped /\ next # Primitive THEN Object(next) ELSE next]

RefStores ==
    {Chain(len, back, wrapped) :
        len \in 1..MaxChain, back \in {0, 1}, wrapped \in BOOLEAN}

RefValues == {Pointer(1), Object(Pointer(1)), Pointer(0), Primitive}

NotResolved == [done |-> FALSE, value |-> <<>>, calls |-> 0, warned |-> FALSE]

RefInit ==
    /\ refDefs \in RefStores
    /\ refValue \in RefValues
    /\ refResult = NotResolved
    /\ LifeIdle /\ FinIdle /\ SchemaIdle /\ ValIdle /\ ToolIdle /\ FmtIdle /\ BrowseIdle /\ ReloadIdle /\ DispatchIdle /\ RetryIdle

\* this.resolve$ref(schema), as getBlockSchema and loadStagedSchema call it.
ResolveRefs ==
    /\ ~refResult.done
    /\ LET r == resolveRef(refDefs, refValue, 0) IN
       refResult' = [done |-> TRUE, value |-> r.value, calls |-> r.calls,
                     warned |-> r.warned]
    /\ UNCHANGED <<refDefs, refValue>>
    /\ UNCHANGED <<lifeVars, finVars, schemaVars, valVars, toolVars, fmtVars, browseVars, reloadVars, dispatchVars, retryVars>>

RefNext == ResolveRefs

SpecResolve == RefInit /\ [][RefNext]_vars

\* The definitions a pointer chain starting at d1 runs through for ever.
Cyclic(defs) ==
    LET last == defs[Len(defs)] IN
    last # Primitive

RECURSIVE HasPointer(_)
HasPointer(v) ==
    IF v[1] = "ref" THEN TRUE
    ELSE IF v[1] = "object" THEN HasPointer(v[2])
    ELSE FALSE

\* C14: resolving a value returns, after at most depth-bound + 2 calls, for
\* every definition store, cyclic ones included; when the pointers of the
\* value run in a cycle the guard fires and the value returned still holds
\* the pointer that was not followed, and nothing is raised.
C14_ResolutionTerminatesAtBound ==
    refResult.done =>
        /\ refResult.calls <= MaxRefDepth + 2
        /\ refResult.value # <<"raises">>
        /\ (Cyclic(refDefs) /\ refValue \in {Pointer(1), Object(Pointer(1))}) =>
               /\ refResult.warned
               /\ HasPointer(refResult.value)

\* A cycle of fifteen definitions was resolved from a pointer to its first.
C14_Witness ==
    /\ refResult.done /\ refResult.warned
    /\ Len(refDefs) = MaxChain /\ Cyclic(refDefs)
    /\ refValue = Pointer(1)
    /\ refResult.value = Pointer(MaxRefDepth + 2)

\* ---------------------------------------------------------------------
\* The browsing paths: get_block_schemas, browse_catalog and the resource
\* reads.

UnknownType == "tpgb/tp-unknown"

NoCatalog == [loaded |-> FALSE, categories |-> {}]

Catalog(categories) == [loaded |-> TRUE, categories |-> categories]

NoGroups == [k \in {} |-> <<>>]

\* The file names under _definitions.
DefinitionFiles == {"typography"}

\* getDefinition(name): definitionsCache.get(name) || null
getDefinition(name) == name \in DefinitionFiles

Request(tool, by, names, key, levels) ==
    [tool |-> tool, by |-> by, names |-> names, key |-> key, levels |-> levels]

NoRequest == Request("none", "", <<>>, "", <<>>)

Answer(request, status, count) ==
    [request |-> request, status |-> status, count |-> count]

\* The loop of handleGetBlockSchemas over args.block_names.
RECURSIVE SchemasByName(_, _, _)
SchemasByName(stores, names, levels) ==
    IF names = <<>> THEN [rejects |-> FALSE, schemas |-> <<>>]
    ELSE LET got == getBlockSchema(stores[Head(names)], levels, TRUE)
             rest == SchemasByName(stores, Tail(names), levels)
         IN IF got.kind = "throws" \/ rest.rejects
            THEN [rejects |-> TRUE, schemas |-> <<>>]
            ELSE IF got.kind = "null" THEN rest
            ELSE [rest EXCEPT !.schemas = <<got.schema>> \o rest.schemas]

\* getSchemasForUseCase / getSchemasByCategory: an unknown group gives [].
getSchemasForGroup(groups, key, stores, cache) ==
    IF key \notin DOMAIN groups
    THEN [rejects |-> FALSE, schemas |-> <<>>, cache |-> cache]
    ELSE getSchemas(stores, cache, groups[key])

handleGetBlockSchemas(req) ==
    /\ req.tool = "get_block_schemas"
    /\ IF req.by = "block_names"
       THEN LET got == SchemasByName(brStores, req.names, req.levels) IN
            /\ brReply' = IF got.rejects THEN Answer(req, "throws", 0)
                          ELSE Answer(req, "success", Len(got.schemas))
            /\ UNCHANGED brCache
       ELSE IF req.by \in {"use_case", "category"}
       THEN LET groups == IF req.by = "use_case" THEN brIndex.useCases
                          ELSE brIndex.categories
                got == getSchemasForGroup(groups, req.key, brStores, brCache)
            IN /\ brReply' = IF got.rejects THEN Answer(req, "throws", 0)
                             ELSE Answer(req, "success", Len(got.schemas))
               /\ brCache' = got.cache
       ELSE /\ brReply' = Answer(req, "error", 0)
            /\ UNCHANGED brCache
    /\ UNCHANGED <<brStores, brIndex>>
    /\ UNCHANGED <<lifeVars, finVars, schemaVars, valVars, toolVars, fmtVars, refVars, reloadVars, dispatchVars, retryVars>>

handleBrowseCatalog(req) ==
    /\ req.tool = "browse_catalog"
    /\ brReply' =
          IF ~brIndex.catalog.loaded THEN Answer(req, "error", 0)
          ELSE IF req.by = "category"
          THEN IF req.key = "" THEN Answer(req, "error", 0)
               ELSE IF req.key \notin brIndex.catalog.categories
               THEN Answer(req, "error", 0)
               ELSE Answer(req, "success", 1)
          ELSE Answer(req, "success", Cardinality(brIndex.catalog.categories))
    /\ UNCHANGED <<brStores, brIndex, brCache>>
    /\ UNCHANGED <<lifeVars, finVars, schemaVars, valVars, toolVars, fmtVars, refVars, reloadVars, dispatchVars, retryVars>>

\* The ReadResource handler: nexter://schemas/block/{name}?levels=...,
\* nexter://schemas/definition/{name}, the three index resources, anything else.
ReadResource(req) ==
    /\ req.tool = "read_resource"
    /\ brReply' =
          IF req.by = "index" THEN Answer(req, "success", 1)
          ELSE IF req.by = "definition"
          THEN IF getDefinition(req.key) THEN Answer(req, "success", 1)
               ELSE Answer(req, "throws", 0)
          ELSE IF req.by = "block"
          THEN LET got == getBlockSchema(brStores[req.key], req.levels, TRUE) IN
               IF got.kind = "schema" THEN Answer(req, "success", 1)
               ELSE Answer(req, "throws", 0)
          ELSE Answer(req, "throws", 0)
    /\ UNCHANGED <<brStores, brIndex, brCache>>
    /\ UNCHANGED <<lifeVars, finVars, schemaVars, valVars, toolVars, fmtVars, refVars, reloadVars, dispatchVars, retryVars>>

BrowseLevels == {<<"full">>, <<"core">>}

BrowseRequests ==
    {Request("get_block_schemas", "block_names", names, "", levels) :
        names \in {<<Heading>>, <<UnknownType>>, <<Heading, UnknownType>>,
                   <<Heading, Container>>},
        levels \in BrowseLevels}
    \cup {Request("get_block_schemas", by, <<>>, key, <<"full">>) :
            by \in {"use_case", "category"}, key \in {"hero", "content", "nope"}}
    \cup {Request("get_block_schemas", "", <<>>, "", <<"full">>)}
    \cup {Request("browse_catalog", by, <<>>, key, <<>>) :
            by \in {"category"}, key \in {"content", "nope", ""}}
    \cup {Request("browse_catalog", "all", <<>>, "", <<>>)}
    \cup {Request("read_resource", "block", <<>>, key, levels) :
            key \in {Heading, UnknownType}, levels \in BrowseLevels}
    \cup {Request("read_resource", "definition", <<>>, key, <<>>) :
            key \in {"typography", "nope"}}
    \cup {Request("read_resource", by, <<>>, "", <<>>) : by \in {"index", "other"}}

BrowseStoreMaps ==
    {(Heading :> h) @@ (Container :> c) @@ (UnknownType :> NoStore) :
        h \in {NoStore, StagedFull(HeadingFile), StagedCoreOnly,
               StagedFull(MalformedFile)},
        c \in {NoStore, StagedFull(ContainerFile)}}

BrowseIndexes ==
    {[catalog |-> catalog, categories |-> categories, useCases |-> useCases] :
        catalog \in {NoCatalog, Catalog({"content"})},
        categories \in {NoGroups, "content" :> <<Heading>>},
        useCases \in {NoGroups, "hero" :> <<Heading, Container>>}}

BrowseInit ==
    /\ brStores \in BrowseStoreMaps
    /\ brIndex \in BrowseIndexes
    /\ brCache = [n \in {} |-> EmptySchema]
    /\ brReply = Answer(NoRequest, "none", 0)
    /\ LifeIdle /\ FinIdle /\ SchemaIdle /\ ValIdle /\ ToolIdle /\ FmtIdle /\ RefIdle /\ ReloadIdle /\ DispatchIdle /\ RetryIdle

BrowseNext ==
    \E req \in BrowseRequests :
        \/ handleGetBlockSchemas(req)
        \/ handleBrowseCatalog(req)
        \/ ReadResource(req)

SpecBrowse == BrowseInit /\ [][BrowseNext]_vars

\* The request names only things the loader does not have: block types
\* without a schema file, an unknown use-case group or category, an unknown
\* definition or resource path.
AsksForUnknown(req) ==
    \/ /\ req.tool = "get_block_schemas" /\ req.by = "block_names"
       /\ \A k \in 1..Len(req.names) : brStores[req.names[k]] = NoStore
    \/ /\ req.tool = "get_block_schemas" /\ req.by = "use_case"
       /\ req.key \notin DOMAIN brIndex.useCases
    \/ /\ req.tool = "get_block_schemas" /\ req.by = "category"
       /\ req.key \notin DOMAIN brIndex.categories
    \/ /\ req.tool = "browse_catalog" /\ req.by = "category" /\ req.key # ""
       /\ req.key \notin brIndex.catalog.categories
    \/ /\ req.tool = "read_resource" /\ req.by = "block"
       /\ brStores[req.key] = NoStore
    \/ /\ req.tool = "read_resource" /\ req.by = "definition"
       /\ ~getDefinition(req.key)
    \/ /\ req.tool = "read_resource" /\ req.by = "other"

\* C17: a browsing request for an unknown block type, use-case group,
\* category or resource path is answered with an error or a raised not-found,
\* never with a success response.
C17_UnknownIsNeverSuccess ==
    AsksForUnknown(brReply.request) => brReply.status \in {"error", "throws"}

\* ---------------------------------------------------------------------
\* reload() against the index getters and a getSchemas call in progress.
\* An index field holds "default" (the reset value), "old" (what the
\* constructor loaded) or "new" (what the file on disk holds now).

MaxReloads == 2

IndexFiles == <<"catalog", "index", "categories", "useCases">>

IndexNames == {IndexFiles[k] : k \in 1..Len(IndexFiles)}

\* loadIndexes(): every field is reset, then the files are read in order
\* inside one try; the first file that does not parse ends the loading.
loadIndexes(disk) ==
    [f \in IndexNames |->
        LET k == CHOOSE j \in 1..Len(IndexFiles) : IndexFiles[j] = f IN
        IF disk[f] = "ok" /\ \A j \in 1..(k - 1) : disk[IndexFiles[j]] # "malformed"
        THEN "new" ELSE "default"]

\* getCatalog, getIndex, getCategories, getUseCases on the fields.
IndexView(mem) ==
    [catalog |-> mem["catalog"],
     index |-> IF mem["catalog"] # "default" THEN <<"catalog", mem["catalog"]>>
               ELSE <<"index", mem["index"]>>,
     categories |-> IF mem["catalog"] # "default" THEN <<"catalog", mem["catalog"]>>
                    ELSE <<"categories", mem["categories"]>>,
     useCases |-> IF mem["catalog"] # "default" THEN <<"catalog", mem["catalog"]>>
                  ELSE <<"useCases", mem["useCases"]>>]

NotSeen == [catalog |-> "", index |-> <<>>, categories |-> <<>>, useCases |-> <<>>]

CacheEntry(version, epoch) == [version |-> version, epoch |-> epoch]

NoCall == [active |-> FALSE, waiting |-> FALSE, name |-> "", held |-> CacheEntry("", 0),
           remaining |-> <<>>, schemas |-> <<>>]

\* getSchemas from the top of its loop to its next await, or to its return:
\* cached names are pushed at once, the first name not cached is read from
\* disk inside getBlockSchema and the call waits on the promise.
RECURSIVE RunToAwait(_, _, _, _)
RunToAwait(cache, remaining, schemas, epoch) ==
    IF remaining = <<>>
    THEN [NoCall EXCEPT !.schemas = schemas]
    ELSE LET name == Head(remaining) IN
         IF name \in DOMAIN cache
         THEN RunToAwait(cache, Tail(remaining), Append(schemas, cache[name].version),
                         epoch)
         ELSE [active |-> TRUE, waiting |-> TRUE, name |-> name,
               held |-> CacheEntry("new", epoch),
               remaining |-> Tail(remaining), schemas |-> schemas]

GetSchemasCall(names) ==
    /\ ~rlCall.active
    /\ rlCall' = RunToAwait(rlCache, names, <<>>, rlEpoch)
    /\ UNCHANGED <<rlDisk, rlMem, rlCache, rlSeen, rlEpoch>>
    /\ UNCHANGED <<lifeVars, finVars, schemaVars, valVars, toolVars, fmtVars, refVars,
                   browseVars, dispatchVars, retryVars>>

\* The continuation after "await this.getBlockSchema(...)": cache.set, push,
\* and on with the loop.
GetSchemasResume ==
    /\ rlCall.active /\ rlCall.waiting
    /\ LET cache == (rlCall.name :> rlCall.held) @@ rlCache IN
       /\ rlCache' = cache
       /\ rlCall' = RunToAwait(cache, rlCall.remaining,
                               Append(rlCall.schemas, rlCall.held.version), rlEpoch)
    /\ UNCHANGED <<rlDisk, rlMem, rlSeen, rlEpoch>>
    /\ UNCHANGED <<lifeVars, finVars, schemaVars, valVars, toolVars, fmtVars, refVars,
                   browseVars, dispatchVars, retryVars>>

\* reload(): this.cache.clear(); this.loadIndexes();
Reload ==
    /\ rlEpoch < MaxReloads
    /\ rlCache' = [n \in {} |-> CacheEntry("", 0)]
    /\ rlMem' = loadIndexes(rlDisk)
    /\ rlEpoch' = rlEpoch + 1
    /\ UNCHANGED <<rlDisk, rlCall, rlSeen>>
    /\ UNCHANGED <<lifeVars, finVars, schemaVars, valVars, toolVars, fmtVars, refVars,
                   browseVars, dispatchVars, retryVars>>

\* A caller reads the four getters in one synchronous stretch.
ObserveIndexes ==
    /\ rlSeen' = IndexView(rlMem)
    /\ UNCHANGED <<rlDisk, rlMem, rlCache, rlCall, rlEpoch>>
    /\ UNCHANGED <<lifeVars, finVars, schemaVars, valVars, toolVars, fmtVars, refVars,
                   browseVars, dispatchVars, retryVars>>

\* What the constructor loaded from the files as they were then.
OldIndexes == [f \in IndexNames |-> "old"]

ReloadInit ==
    /\ rlDisk \in [IndexNames -> {"missing", "malformed", "ok"}]
    /\ rlMem = OldIndexes
    /\ rlCache \in {[n \in {} |-> CacheEntry("", 0)],
                     Heading :> CacheEntry("old", 0)}
    /\ rlCall = NoCall
    /\ rlSeen = NotSeen
    /\ rlEpoch = 0
    /\ LifeIdle /\ FinIdle /\ SchemaIdle /\ ValIdle /\ ToolIdle /\ FmtIdle /\ RefIdle /\ DispatchIdle /\ RetryIdle
    /\ BrowseIdle /\ DispatchIdle /\ RetryIdle

ReloadNext ==
    \/ \E names \in {<<Heading>>, <<Heading, Container>>} : GetSchemasCall(names)
    \/ GetSchemasResume
    \/ Reload
    \/ ObserveIndexes

SpecReload == ReloadInit /\ [][ReloadNext]_vars

\* The fields a reload that took in every file would leave: the new content
\* for a file that parses, the default for a file that is missing, and the
\* default or the old content for a file that does not parse.
CompleteLoads(disk) ==
    {m \in [IndexNames -> {"default", "old", "new"}] :
        \A f \in IndexNames :
            /\ disk[f] = "ok" => m[f] = "new"
            /\ disk[f] = "missing" => m[f] = "default"
            /\ disk[f] = "malformed" => m[f] \in {"default", "old"}}

\* C18: what the getters return is the whole state from before the reload or
\* the whole state of the files reloaded, also when a file fails to parse
\* part-way; and the cache never holds an entry read before the last reload.
C18_ReloadIsAtomic ==
    /\ rlSeen # NotSeen =>
           \/ rlSeen = IndexView(OldIndexes)
           \/ \E m \in CompleteLoads(rlDisk) : rlSeen = IndexView(m)
    /\ \A n \in DOMAIN rlCache : rlCache[n].epoch = rlEpoch

\* ---------------------------------------------------------------------
\* The tree handed to the host.

ChildrenOf(b) == IF b.innerBlocks.kind = "array" THEN b.innerBlocks.items ELSE <<>>

\* Every governed block of the tree, at every depth, has markup, and a block
\* with children has one placeholder per child.
RECURSIVE FullyFormatted(_)
FullyFormatted(blocks) ==
    \A i \in 1..Len(blocks) :
        LET b == blocks[i] IN
        /\ StartsWithTpgb(b.blockName) => b.innerHTML # NoMarkup
        /\ Len(ChildrenOf(b)) > 0 =>
               /\ b.innerContent.kind = "array"
               /\ Len(b.innerContent.items) = Len(ChildrenOf(b))
        /\ FullyFormatted(ChildrenOf(b))

\* The formatted tree has the blocks of the input, in the input's order, and
\* keeps the markup the input supplied.
RECURSIVE SameBlocksInOrder(_, _)
SameBlocksInOrder(given, formatted) ==
    /\ Len(given) = Len(formatted)
    /\ \A i \in 1..Len(given) :
           /\ given[i].blockName = formatted[i].blockName
           /\ given[i].attrs.block_id # NoId =>
                  formatted[i].attrs.block_id = given[i].attrs.block_id
           /\ given[i].innerHTML # NoMarkup => formatted[i].innerHTML = given[i].innerHTML
           /\ SameBlocksInOrder(ChildrenOf(given[i]), ChildrenOf(formatted[i]))

\* C21: in the tree handed to createContent / updateContent every governed
\* block at every depth has markup (supplied markup is kept), a parent has
\* one content placeholder per child, and the children keep their order.
C21_FormattedAtEveryDepth ==
    toolSent.op # "none" =>
        /\ FullyFormatted(toolSent.blocks)
        /\ SameBlocksInOrder(toolSent.source, toolSent.blocks)

\* C22: validate_content with auto_fix on a tree whose one block has the
\* bare alias name "heading" and no identifier returns the block renamed to
\* the alias-table match and carrying a generated valid identifier, in a
\* result that is valid and has no errors.
C22_AutoFixBareAliasWithoutId ==
    (/\ vFix.done /\ ~vFix.throws
     /\ Len(vFix.input) = 1
     /\ vFix.input[1].blockName = "heading"
     /\ vFix.input[1].attrs.kind = "object"
     /\ vFix.input[1].attrs.block_id = NoId)
    => /\ vFix.blocks[1].blockName = Heading
       /\ isValidBlockId(vFix.blocks[1].attrs.block_id)
       /\ vFix.valid
       /\ vFix.errors = <<>>

\* Some block of the tree, at any depth, has an attrs that is not an object:
\* absent, a scalar or an array.
RECURSIVE HasNonObjectAttrs(_)
HasNonObjectAttrs(blocks) ==
    \E i \in 1..Len(blocks) :
        \/ blocks[i].attrs.kind # "object"
        \/ HasNonObjectAttrs(ChildrenOf(blocks[i]))

\* C23: validation reports an error for every tree holding a block whose
\* attrs is absent, an array or a scalar, and auto-fix returns such a
\* top-level block with an empty object as its attrs.
C23_AttrsMustBeObject ==
    /\ (vResult.done /\ HasNonObjectAttrs(vResult.input)) => ~vResult.valid
    /\ (vFix.done /\ ~vFix.throws) =>
           \A i \in 1..Len(vFix.input) :
               vFix.input[i].attrs.kind # "object" =>
                   /\ vFix.blocks[i].attrs.kind = "object"
                   /\ vFix.blocks[i].attrs.props = NoProps

\* C24: every createContent request carries status 'draft' whatever status
\* the agent's arguments asked for, and the post a successful create_content
\* call stored has post_status 'draft'.
C24_CreatedAsDraft ==
    /\ toolSent.op = "createContent" => toolSent.status = "draft"
    /\ (toolReply.tool = "create_content" /\ toolReply.status = "success") =>
           hostStatus = "draft"

\* A create_content call succeeded on a host that held a published post.
C24_Witness ==
    /\ toolReply.tool = "create_content" /\ toolReply.status = "success"
    /\ toolSent.op = "createContent" /\ toolSent.status = "draft"
    /\ hostStatus = "draft" /\ hostTree.exists

(***************************************************************************)
(* edit_content on its own: lists of operations, operations without an     *)
(* identifier, new_attrs that carry block_id and className.                *)
(***************************************************************************)
NestedAtPost == <<"c", "4", "d", "9">> \o Underscore \o ToDec(ToolPost)

ClassC == "className" :> Value("string", "c", 0)

ClassX == "className" :> Value("string", "x", 0)

NewTitle == "title" :> Value("string", "new", 0)

Paragraph == Leaf("core/paragraph", ObjAttrs(NoId, NoProps))

\* Posts the host holds before an edit: a heading with a className beside a
\* container with a heading in it; a heading followed by a core paragraph,
\* which has no block_id.
EditPosts ==
    {NoPost,
     Stored(<<StoredHeading(Base1AtPost, PropsOk @@ ClassC),
              MarkedBlk(Container, Base2AtPost,
                        ArrayOf(<<StoredHeading(NestedAtPost, PropsOk)>>))>>),
     Stored(<<StoredHeading(Base1AtPost, PropsOk), Paragraph>>)}

\* modify_block whose new_attrs name another block_id and className.
ModifyIdentity(blockId) ==
    [ModifyOp(blockId, NewTitle @@ ClassX) EXCEPT !.new_attrs.block_id = Base2]

\* args.operations of edit_content.
EditCalls ==
    {<<ModifyOp(Base1AtPost, NewTitle)>>,
     <<ModifyIdentity(Base1AtPost)>>,
     <<ModifyIdentity(NestedAtPost)>>,
     <<ModifyOp(Base1AtPost, NewTitle), ModifyIdentity(Base1AtPost)>>,
     <<ModifyOp(NoId, NewTitle)>>,
     <<RemoveOp(Base1AtPost)>>,
     <<RemoveOp(NestedAtPost)>>,
     <<RemoveOp(Base2AtPost)>>,
     <<RemoveOp(NoId)>>,
     <<AddOp(StoredHeading(Base2, PropsOk))>>,
     <<AddOp(StoredHeading(NoId, PropsOk))>>,
     <<AddOp(StoredHeading(Base1AtPost, PropsOk))>>,
     <<UnknownOp>>,
     <<ModifyOp(Base1AtPost, NewTitle), UnknownOp>>,
     <<RemoveOp(Base1AtPost), AddOp(StoredHeading(NoId, PropsOk))>>}

EditInit ==
    /\ LifeIdle /\ FinIdle /\ SchemaIdle /\ ValIdle /\ FmtIdle /\ RefIdle /\ BrowseIdle /\ ReloadIdle /\ DispatchIdle /\ RetryIdle
    /\ hostTree \in EditPosts
    /\ hostStatus = IF hostTree.exists THEN "draft" ELSE ""
    /\ toolStores =
         (Heading :> NoStore) @@ (Container :> NoStore) @@ ("core/paragraph" :> NoStore)
    /\ toolCache = [n \in {} |-> EmptySchema]
    /\ toolSent = NotSent
    /\ toolReply = NoReply

EditNext ==
    \E operations \in EditCalls : \E gen \in ClientGenIds :
        handleEditContent(operations, [i \in 1..(MaxToolBlocks + 1) |-> gen])

SpecEdit == EditInit /\ [][EditNext]_vars

\* Every block of a tree, parents before their children.
RECURSIVE AllBlocks(_)
AllBlocks(blocks) ==
    IF blocks = <<>> THEN <<>>
    ELSE <<Head(blocks)>> \o AllBlocks(ChildrenOf(Head(blocks)))
         \o AllBlocks(Tail(blocks))

\* The className of a block, <<>> when it has none.
ClassNameOf(block) ==
    IF block.attrs.kind = "object" /\ "className" \in DOMAIN block.attrs.props
    THEN <<block.attrs.props["className"]>>
    ELSE <<>>

OnlyModifies(operations) ==
    /\ operations # <<>>
    /\ \A i \in 1..Len(operations) : operations[i].operation = "modify_block"

Targets(operations) == {operations[i].block_id : i \in 1..Len(operations)}

\* C25: an edit_content call made of modify_block operations leaves every
\* block's block_id and className as the stored document had them, and
\* leaves the attributes of every block that no operation targets as they
\* were, whatever new_attrs carries.
C25_ModifyKeepsIdentity ==
    [][(toolReply'.tool = "edit_content" /\ hostTree.exists
        /\ OnlyModifies(toolReply'.operations))
       => LET before == AllBlocks(hostTree.blocks)
              after == AllBlocks(toolReply'.source)
          IN /\ Len(after) = Len(before)
             /\ \A i \in 1..Len(before) :
                   /\ after[i].attrs.block_id = before[i].attrs.block_id
                   /\ ClassNameOf(after[i]) = ClassNameOf(before[i])
                   /\ before[i].attrs.block_id \notin Targets(toolReply'.operations)
                        => after[i].attrs = before[i].attrs]_vars

\* A saved edit whose new_attrs named another block_id and className: the
\* document sent still has the heading under its identifier, with its
\* className and the new title.
C25_Witness ==
    /\ toolReply.tool = "edit_content" /\ toolReply.status = "success"
    /\ toolReply.operations = <<ModifyIdentity(Base1AtPost)>>
    /\ toolSent.source[1].attrs = ObjAttrs(Base1AtPost, NewTitle @@ ClassC)
    /\ hostTree.blocks[1].attrs.block_id = Base1AtPost

AllRecognised(operations) ==
    \A i \in 1..Len(operations) : Recognised(operations[i])

\* C26: an edit_content call calls updateContent at most once, and only
\* with every operation recognised, the edited tree passing validateBlocks
\* and the formatted tree passing the host's validation; a call with an
\* unknown operation or a failed validation sends nothing and leaves the
\* stored document as it was.
C26_EditIsAllOrNothing ==
    [][toolReply'.tool = "edit_content"
       => LET refused == \/ ~AllRecognised(toolReply'.operations)
                         \/ ~validateBlocks(toolReply'.source).valid
                         \/ toolReply'.hostErrors # <<>>
          IN /\ toolReply'.updates <= 1
             /\ toolReply'.updates = 1
                  => /\ AllRecognised(toolReply'.operations)
                     /\ validateBlocks(toolReply'.source).valid
                     /\ toolSent'.op = "updateContent"
                     /\ toolSent'.source = toolReply'.source
                     /\ validate_block_tree(toolSent'.blocks).valid
             /\ toolReply'.updates = 0 => toolSent' = toolSent
             /\ hostTree' # hostTree => toolReply'.updates = 1
             /\ (hostTree.exists /\ refused)
                  => /\ toolReply'.updates = 0
                     /\ toolReply'.status = "error"
                     /\ hostTree' = hostTree]_vars

\* A call whose second operation is unknown, after a first that could have
\* been applied: refused, nothing sent, the stored title is the old one.
C26_Witness ==
    /\ toolReply.tool = "edit_content" /\ toolReply.status = "error"
    /\ toolReply.operations = <<ModifyOp(Base1AtPost, NewTitle), UnknownOp>>
    /\ toolReply.source[1].attrs.props["title"] = NewTitle["title"]
    /\ toolReply.updates = 0
    /\ toolSent = NotSent
    /\ hostTree.exists /\ hostTree.blocks[1].attrs.props["title"] = PropsOk["title"]

\* The blocks of a tree that are neither identified by id nor below a
\* block identified by id, parents before their children.
RECURSIVE Others(_, _)
Others(blocks, id) ==
    IF blocks = <<>> THEN <<>>
    ELSE (IF Head(blocks).attrs.block_id = id THEN <<>>
          ELSE <<[blockName |-> Head(blocks).blockName, attrs |-> Head(blocks).attrs]>>
               \o Others(ChildrenOf(Head(blocks)), id))
         \o Others(Tail(blocks), id)

\* C29: an edit_content call with one remove_block for identifier X yields
\* the stored tree without the blocks identified by X, all others in their
\* order; one modify_block for X changes the attributes of no block whose
\* identifier is not X; and an operation that carries no identifier leaves
\* the tree as it was, blocks without an identifier included.
C29_OnlyTheAddressedBlock ==
    [][(toolReply'.tool = "edit_content" /\ hostTree.exists
        /\ Len(toolReply'.operations) = 1
        /\ toolReply'.operations[1].operation \in {"remove_block", "modify_block"})
       => LET op == toolReply'.operations[1]
              before == hostTree.blocks
              after == toolReply'.source
          IN /\ op.block_id = NoId => after = before
             /\ (op.block_id # NoId /\ op.operation = "remove_block")
                  => /\ \A i \in 1..Len(AllBlocks(after)) :
                           AllBlocks(after)[i].attrs.block_id # op.block_id
                     /\ Others(after, op.block_id) = Others(before, op.block_id)
             /\ (op.block_id # NoId /\ op.operation = "modify_block")
                  => /\ Len(AllBlocks(after)) = Len(AllBlocks(before))
                     /\ \A i \in 1..Len(AllBlocks(before)) :
                           AllBlocks(before)[i].attrs.block_id # op.block_id
                              => AllBlocks(after)[i].attrs = AllBlocks(before)[i].attrs]_vars

(***************************************************************************)
(* create_content with writes that can fail: wp_insert_post, and the       *)
(* wp_update_post that stores the tree with the post id appended.          *)
(***************************************************************************)
CreateNext ==
    \/ LifeNext
    \/ \E insertOk \in BOOLEAN : \E updateOk \in BOOLEAN :
          create_content(insertOk, updateOk)

SpecCreate == LifeInit /\ [][CreateNext]_vars

\* C27: when create_content has answered success for post p, the stored
\* tree of p holds no identifier in base form at any depth: each is
\* '<base>_<p>'.
C27_SuccessMeansFinalized ==
    (lastCall.op = "create" /\ lastCall.status = "success")
        => /\ posts[lastCall.post].exists
           /\ \A id \in TreeIds(posts[lastCall.post].blocks) :
                 isValidBlockId(id) => IsSuffixedId(id)

(***************************************************************************)
(* Tool dispatch on the two transports: the CallTool handler of            *)
(* registerTools (stdio) and the tools/call branch of POST /mcp.           *)
(***************************************************************************)
\* The keys of toolHandlers.
ToolNames ==
    {"get_block_schemas", "create_content", "analyze_content", "search_content",
     "edit_content", "browse_block_catalog", "validate_content"}

\* The parameters of each handler after args.
HandlerParams(name) ==
    CASE name \in {"get_block_schemas", "browse_block_catalog"} -> <<"schemaLoader">>
      [] name \in {"search_content", "validate_content"} -> <<"wpClient">>
      [] OTHER -> <<"wpClient", "schemaLoader">>

\* The collaborators the switch of the CallTool handler passes after args.
StdioCollaborators(name) ==
    CASE name \in {"get_block_schemas", "browse_block_catalog"} -> <<"schemaLoader">>
      [] name \in {"create_content", "analyze_content", "edit_content"} ->
             <<"wpClient", "schemaLoader">>
      [] OTHER -> <<"wpClient">>

\* The collaborators the tools/call branch passes after args.
HttpCollaborators(name) ==
    IF name = "get_block_schemas" THEN <<"schemaLoader">>
    ELSE IF name = "analyze_content" \/ name = "edit_content"
    THEN <<"wpClient", "schemaLoader">>
    ELSE <<"wpClient">>

\* Whether the handler calls a method of its parameter of that name for
\* these arguments: handleCreateContent returns INVALID_INPUT before it
\* reaches schemaLoader.getSchemas, handleEditContent and
\* handleValidateContent never touch _schemaLoader / _wpClient.
Uses(name, args, param) ==
    CASE name = "create_content" -> args = "wellformed"
      [] name = "edit_content" -> param = "wpClient"
      [] name = "validate_content" -> FALSE
      [] OTHER -> TRUE

\* What the parameter of that name is bound to by a call that passes these
\* collaborators in order.
BoundTo(name, passed, param) ==
    LET pos == CHOOSE i \in 1..Len(HandlerParams(name)) : HandlerParams(name)[i] = param
    IN IF pos <= Len(passed) THEN passed[pos] ELSE "undefined"

\* The handler's outcome: a TypeError when it calls a method on a parameter
\* bound to undefined or to the other collaborator, its return value
\* otherwise.
RunHandler(name, args, passed) ==
    IF \E i \in 1..Len(HandlerParams(name)) :
          /\ Uses(name, args, HandlerParams(name)[i])
          /\ BoundTo(name, passed, HandlerParams(name)[i]) # HandlerParams(name)[i]
    THEN [kind |-> "throws", value |-> <<"TypeError">>]
    ELSE [kind |-> "returns", value |-> <<name, args>>]

Dispatched(name, args, passed, outcome, envelope) ==
    [name |-> name, args |-> args, passed |-> passed, outcome |-> outcome,
     envelope |-> envelope]

NoDispatch == Dispatched("", "", <<>>, [kind |-> "none", value |-> <<>>], "")

\* server.setRequestHandler(CallToolRequestSchema, ...).
StdioCallTool(name, args) ==
    /\ stdioCall' =
         IF name \notin ToolNames
         THEN Dispatched(name, args, <<>>,
                         [kind |-> "returns", value |-> <<"Unknown tool">>], "content")
         ELSE LET outcome == RunHandler(name, args, StdioCollaborators(name))
              IN Dispatched(name, args, StdioCollaborators(name), outcome,
                            IF outcome.kind = "throws" THEN "content isError"
                            ELSE "content")
    /\ UNCHANGED <<httpCall, lifeVars, finVars, schemaVars, valVars, toolVars, fmtVars, refVars, browseVars, reloadVars, retryVars>>

\* app.post('/mcp') with method tools/call.
HttpToolsCall(name, args) ==
    /\ httpCall' =
         IF name \notin ToolNames
         THEN Dispatched(name, args, <<>>,
                         [kind |-> "throws", value |-> <<"Tool not found">>], "400")
         ELSE LET outcome == RunHandler(name, args, HttpCollaborators(name))
              IN Dispatched(name, args, HttpCollaborators(name), outcome,
                            IF outcome.kind = "throws" THEN "500" ELSE "content")
    /\ UNCHANGED <<stdioCall, lifeVars, finVars, schemaVars, valVars, toolVars, fmtVars, refVars, browseVars, reloadVars, retryVars>>

\* params.name and the kind of params.arguments of a request.
RequestNames == ToolNames \cup {"nope"}

RequestArgs == {"wellformed", "malformed"}

DispatchInit ==
    /\ LifeIdle /\ FinIdle /\ SchemaIdle /\ ValIdle /\ ToolIdle /\ FmtIdle /\ RefIdle /\ BrowseIdle /\ ReloadIdle /\ RetryIdle
    /\ stdioCall = NoDispatch
    /\ httpCall = NoDispatch

DispatchNext ==
    \/ \E name \in RequestNames : \E args \in RequestArgs : StdioCallTool(name, args)
    \/ \E name \in RequestNames : \E args \in RequestArgs : HttpToolsCall(name, args)

SpecDispatch == DispatchInit /\ [][DispatchNext]_vars

\* C28: for a registered tool and the same arguments, the HTTP route hands
\* the handler the collaborators the stdio handler hands it, and the
\* handler's outcome is the same.
C28_SameDispatchOnBothTransports ==
    (stdioCall.name \in ToolNames /\ httpCall.name = stdioCall.name
     /\ httpCall.args = stdioCall.args)
        => /\ httpCall.passed = stdioCall.passed
           /\ httpCall.outcome = stdioCall.outcome

(***************************************************************************)
(* The response interceptor of WordPressClient: one request to the host,   *)
(* its failures and its retries.                                           *)
(***************************************************************************)
DefaultRetryAttempts == 3

MaxEnvRetries == 4     \* WP_API_RETRY_ATTEMPTS is tried from "0" to this

DigitValue(c) == CHOOSE d \in 0..9 : DigitChar(d) = c

\* parseInt(s, 10) of a string of decimal digits.
RECURSIVE parseInt(_)
parseInt(s) ==
    IF Len(s) = 1 THEN DigitValue(s[1])
    ELSE 10 * parseInt(SubSeq(s, 1, Len(s) - 1)) + DigitValue(s[Len(s)])

\* parseInt(process.env.WP_API_RETRY_ATTEMPTS || '3', 10)
maxRetries(env) == parseInt(IF env = <<>> THEN ToDec(DefaultRetryAttempts) ELSE env)

\* A rule that retries every failed attempt that got a response.
shouldRetryAnyStatus(retry, max, status) == retry < max /\ status # 0

\* config.retry < maxRetries && error.response?.status &&
\* error.response.status >= 500 (status 0: the error has no response).
shouldRetry(retry, max, status) == retry < max /\ status # 0 /\ status >= 500

\* 1000 * Math.pow(2, config.retry), with config.retry already increased.
BackoffDelay(retry) == 1000 * 2^retry

\* Outcomes of one attempt: a 2xx response, 4xx and 5xx responses, and a
\* failure without a response (timeout, connection refused).
OkStatuses == {200}

ErrorStatuses == {0, 404, 500, 503}

RetryEnvs == {<<>>} \cup {ToDec(n) : n \in 0..MaxEnvRetries}

RetryInit ==
    /\ LifeIdle /\ FinIdle /\ SchemaIdle /\ ValIdle /\ ToolIdle /\ FmtIdle /\ RefIdle /\ BrowseIdle /\ ReloadIdle /\ DispatchIdle
    /\ rtEnv \in RetryEnvs
    /\ rtRetry = <<>>
    /\ rtAttempts = 1
    /\ rtSeen = <<>>
    /\ rtWaits = <<>>
    /\ rtState = "inflight"

\* The fulfilled side of the response interceptor: the response is returned.
ResponseFulfilled(status) ==
    /\ rtState = "inflight"
    /\ rtSeen' = Append(rtSeen, status)
    /\ rtState' = "resolved"
    /\ UNCHANGED <<rtEnv, rtRetry, rtAttempts, rtWaits, lifeVars, finVars, schemaVars, valVars, toolVars, fmtVars, refVars, browseVars, reloadVars, dispatchVars>>

\* The rejected side of the response interceptor, up to its await or its
\* Promise.reject(error).
ResponseRejected(status) ==
    /\ rtState = "inflight"
    /\ rtSeen' = Append(rtSeen, status)
    /\ LET retry == IF rtRetry = <<>> \/ rtRetry = <<0>> THEN 0 ELSE rtRetry[1]
       IN IF shouldRetry(retry, maxRetries(rtEnv), status)
          THEN /\ rtRetry' = <<retry + 1>>
               /\ rtWaits' = Append(rtWaits, BackoffDelay(retry + 1))
               /\ rtState' = "waiting"
          ELSE /\ rtRetry' = <<retry>>
               /\ rtState' = "rejected"
               /\ UNCHANGED rtWaits
    /\ UNCHANGED <<rtEnv, rtAttempts, lifeVars, finVars, schemaVars, valVars, toolVars, fmtVars, refVars, browseVars, reloadVars, dispatchVars>>

\* The timer fires: return this.axios(config) hands the request to the host
\* again.
RetryRequest ==
    /\ rtState = "waiting"
    /\ rtAttempts' = rtAttempts + 1
    /\ rtState' = "inflight"
    /\ UNCHANGED <<rtEnv, rtRetry, rtSeen, rtWaits, lifeVars, finVars, schemaVars, valVars, toolVars, fmtVars, refVars, browseVars, reloadVars, dispatchVars>>

RetryNext ==
    \/ \E status \in OkStatuses : ResponseFulfilled(status)
    \/ \E status \in ErrorStatuses : ResponseRejected(status)
    \/ RetryRequest

SpecRetry == RetryInit /\ [][RetryNext]_vars

\* C30: a request is handed to the host at most 1 + maxRetries times; each
\* retry follows a response of status 500 or more; config.retry counts the
\* retries one by one and the wait before retry n is 1000 * 2^n ms; the
\* request ends rejected with the last error when that error is not
\* retried.
C30_RetryIsBounded ==
    /\ rtAttempts <= 1 + maxRetries(rtEnv)
    /\ Len(rtWaits) = (IF rtState = "waiting" THEN rtAttempts ELSE rtAttempts - 1)
    /\ rtRetry # <<>> => rtRetry[1] = Len(rtWaits)
    /\ \A n \in 1..Len(rtWaits) :
          /\ rtWaits[n] = 1000 * 2^n
          /\ rtSeen[n] >= 500
    /\ rtState = "rejected"
          => /\ rtSeen[Len(rtSeen)] \in ErrorStatuses
             /\ Len(rtSeen) = rtAttempts
             /\ rtSeen[Len(rtSeen)] < 500 \/ rtAttempts = 1 + maxRetries(rtEnv)
    /\ (rtSeen # <<>> /\ rtState \in {"resolved", "rejected"}
        /\ rtSeen[Len(rtSeen)] \in ErrorStatuses)
          => rtState = "rejected"
    /\ (rtState = "waiting")
          => rtSeen[Len(rtSeen)] >= 500 /\ rtAttempts <= maxRetries(rtEnv)

\* With the default of three retries: four attempts that all got a 5xx
\* response, waits of 2, 4 and 8 seconds, and the request rejected.
C30_Witness ==
    /\ rtEnv = <<>>
    /\ rtState = "rejected"
    /\ rtAttempts = 1 + DefaultRetryAttempts
    /\ rtWaits = <<2000, 4000, 8000>>
    /\ \A i \in 1..Len(rtSeen) : rtSeen[i] >= 500

====
